---- MODULE Spec2Model ----
(***************************************************************************)
(* Keithley 6220 differential-conductance sweep session: the core class    *)
(* Keithley6220 (cs_6220_core_func.py) and its Qt controller               *)
(* Keithley6220Qt (pyqt_6220_controller.py).                               *)
(*                                                                         *)
(* Text read from the transport is a sequence of one-character strings.    *)
(* Python's None is the one-element sequence <<"None">>; an optional       *)
(* number is a sequence of length 0 (None) or 1.  Currents are integers in *)
(* nanoamperes, delays integers in milliseconds.                           *)
(***************************************************************************)
EXTENDS Integers, Sequences, FiniteSets, TLC

VARIABLES
    instrument,      \* self.instrument: "None" or "open"
    start,           \* self.start   (optional number, nA)
    stop,            \* self.stop    (optional number, nA)
    step,            \* self.step    (optional number, nA)
    delta,           \* self.delta   (optional number, nA)
    delay,           \* self.delay   (optional number, ms)
    total_points,    \* self.total_points (optional number)
    estimated_time,  \* self.estimated_time (optional number, ms)
    is_armed,        \* self.is_armed
    under_arming,    \* self.under_arming
    elapsed_time,    \* self.elapsed_time, seconds
    arming_timeout,  \* self.arming_timeout, seconds
    arm_timer,       \* self.arm_timer.isActive()
    op,              \* the handler that ran last
    io,              \* the transport calls of the handler that ran last, in order
    emitted,         \* the Qt signals emitted by the handler that ran last, in order
    ret,             \* what the handler that ran last returned or observed
    chk,             \* the results of the checks the handler that ran last made
    args,            \* the arguments the handler that ran last was called with
    output_state,        \* self.output_state: None, "ON" or "OFF"
    inner_shield_status, \* self.inner_shield_status: None or the mode read last
    output_low_status,   \* self.output_low_status: None, "0" or "1"
    current_values,      \* self.current_values: the currents retrieved last
    voltage_values,      \* self.voltage_values: the voltages retrieved last
    device_output,       \* the output of the 6220 as the accepted OUTP writes leave it
    nv_instrument,       \* Keithley2182AConnection.instrument: "None" or "open"
    device_connected     \* Keithley2182AConnection.device_connected

vars == <<instrument, start, stop, step, delta, delay, total_points, estimated_time,
          is_armed, under_arming, elapsed_time, arming_timeout, arm_timer,
          op, io, emitted, ret, chk, args,
          output_state, inner_shield_status, output_low_status,
          current_values, voltage_values,
          device_output, nv_instrument, device_connected>>

dataVars == <<current_values, voltage_values>>

nvVars == <<nv_instrument, device_connected>>

outsideVars == <<device_output, nv_instrument, device_connected>>

cacheVars == <<output_state, inner_shield_status, output_low_status>>

armVars == <<is_armed, under_arming, elapsed_time, arming_timeout, arm_timer>>

planVars == <<start, stop, step, delta, delay, total_points, estimated_time>>

-----------------------------------------------------------------------------
(* Python values *)

None == <<"None">>

VisaIOError == <<"VisaIOError">>

True == <<"True">>

False == <<"False">>

Bool(b) == IF b THEN True ELSE False

Whitespace == {" ", "\t", "\r", "\n"}

Digits == {"0", "1", "2", "3", "4", "5", "6", "7", "8", "9"}

DigitVal(c) ==
    CASE c = "0" -> 0 [] c = "1" -> 1 [] c = "2" -> 2 [] c = "3" -> 3 [] c = "4" -> 4
      [] c = "5" -> 5 [] c = "6" -> 6 [] c = "7" -> 7 [] c = "8" -> 8 [] c = "9" -> 9

RECURSIVE DigitsVal(_)
DigitsVal(s) ==
    IF s = <<>> THEN 0
    ELSE DigitsVal(SubSeq(s, 1, Len(s) - 1)) * 10 + DigitVal(s[Len(s)])

AllDigits(s) == \A i \in 1..Len(s) : s[i] \in Digits

\* the first index of s holding a character of cs, 0 if there is none
IndexOf(s, cs) ==
    IF \E i \in 1..Len(s) : s[i] \in cs
    THEN CHOOSE i \in 1..Len(s) : s[i] \in cs /\ \A j \in 1..(i - 1) : s[j] \notin cs
    ELSE 0

RECURSIVE LStrip(_)
LStrip(s) == IF s # <<>> /\ s[1] \in Whitespace THEN LStrip(Tail(s)) ELSE s

RECURSIVE RStrip(_)
RStrip(s) ==
    IF s # <<>> /\ s[Len(s)] \in Whitespace THEN RStrip(SubSeq(s, 1, Len(s) - 1)) ELSE s

\* str.strip()
strip(s) == RStrip(LStrip(s))

RECURSIVE Pow10(_)
Pow10(n) == IF n <= 0 THEN 1 ELSE 10 * Pow10(n - 1)

RECURSIVE Normal(_, _)
Normal(m, e) ==
    IF m = 0 THEN [ok |-> TRUE, m |-> 0, e |-> 0]
    ELSE IF m % 10 = 0 THEN Normal(m \div 10, e + 1)
    ELSE [ok |-> TRUE, m |-> m, e |-> e]

NotANumber == [ok |-> FALSE, m |-> 0, e |-> 0]

\* float(text): the decimal m * 10^e with m not a multiple of 10, or a ValueError /
\* TypeError (ok = FALSE).  Grammar: [sign] digits [. digits] [E [sign] digits].
float(text) ==
    IF text = None THEN NotANumber
    ELSE
    LET s     == strip(text)
        neg   == s # <<>> /\ s[1] = "-"
        body  == IF s # <<>> /\ s[1] \in {"+", "-"} THEN Tail(s) ELSE s
        ei    == IndexOf(body, {"E", "e"})
        mant  == IF ei = 0 THEN body ELSE SubSeq(body, 1, ei - 1)
        expo  == IF ei = 0 THEN <<>> ELSE SubSeq(body, ei + 1, Len(body))
        eneg  == expo # <<>> /\ expo[1] = "-"
        edig  == IF expo # <<>> /\ expo[1] \in {"+", "-"} THEN Tail(expo) ELSE expo
        di    == IndexOf(mant, {"."})
        ip    == IF di = 0 THEN mant ELSE SubSeq(mant, 1, di - 1)
        fp    == IF di = 0 THEN <<>> ELSE SubSeq(mant, di + 1, Len(mant))
        expOk == IF ei = 0 THEN TRUE ELSE edig # <<>> /\ AllDigits(edig)
        manOk == AllDigits(ip) /\ AllDigits(fp) /\ Len(ip) + Len(fp) >= 1
        ev    == IF ei = 0 THEN 0 ELSE (IF eneg THEN 0 - DigitsVal(edig) ELSE DigitsVal(edig))
        mv    == DigitsVal(ip \o fp)
    IN  IF manOk /\ expOk
        THEN Normal(IF neg THEN 0 - mv ELSE mv, ev - Len(fp))
        ELSE NotANumber

FloatEquals_any_number(f, stored, unit) == f.ok /\ stored # <<>>

\* queried == stored, for a queried float and a stored optional number kept in
\* units of 10^-unit (9: nanoamperes, 3: milliseconds); a stored number is below
\* 2 * 10^9 units, so a larger queried one differs from it
FloatEquals(f, stored, unit) ==
    /\ f.ok
    /\ stored # <<>>
    /\ IF f.m = 0 THEN stored[1] = 0
       ELSE /\ f.e + unit >= 0
            /\ f.e + unit <= 9
            /\ (IF f.m < 0 THEN 0 - f.m ELSE f.m) <= 2000000000 \div Pow10(f.e + unit)
            /\ f.m * Pow10(f.e + unit) = stored[1]

-----------------------------------------------------------------------------
(* Transport log *)

\* one transport call: the command, its numeric argument if any, and whether the
\* transport carried it out (FALSE: write()/query() raised)
Call(cmd, arg, ok) == [cmd |-> cmd, arg |-> arg, ok |-> ok]

Cmds(log) == {log[i].cmd : i \in 1..Len(log)}

Signal(sig, a, b) == [sig |-> sig, a |-> a, b |-> b]

-----------------------------------------------------------------------------
(* What the device may answer *)

\* answers to the status queries SOUR:DCON:ARM?, SOUR:DELTA:NVPResent? and
\* OUTP:INT:TRIPped?: "1", "0", "1 " (trailing blank), an empty line, the SCPI
\* error frame -221,e , the unexpected "2", or no answer at all
StatusReplies ==
    { <<"1">>, <<"0">>, <<"1", " ">>, <<>>, <<"-", "2", "2", "1", ",", "e">>, <<"2">>,
      VisaIOError }

ParamQueries ==
    << "SOUR:DCON:STAR?", "SOUR:DCON:STOP?", "SOUR:DCON:STEP?", "SOUR:DCON:DELTA?",
       "SOUR:DCON:DELay?" >>

\* answers to the five parameter queries: for each, two numbers (the first is the
\* value of the plan PlanA below, in two spellings for the step), an empty line
\* and no answer; the start query may also answer text that is no number
ParamReplies(k) ==
    CASE k = 1 -> { <<"0", ".", "0", "0", "0", "0", "0", "0", "E", "+", "0", "0">>,
                    <<"1", ".", "0", "E", "-", "3">>, <<>>, VisaIOError, <<"a", "b", "c">> }
      [] k = 2 -> { <<"1", ".", "0", "E", "-", "0", "2">>, <<"+", "2", "E", "-", "2">>,
                    <<>>, VisaIOError }
      [] k = 3 -> { <<"1", ".", "0", "0", "0", "0", "0", "0", "E", "-", "0", "3">>,
                    <<"0", ".", "0", "0", "1">>, <<"2", "e", "-", "3">>, VisaIOError }
      [] k = 4 -> { <<"1", "E", "-", "5">>, <<"1", ".", "0", "E", "-", "6">>, <<>>,
                    VisaIOError }
      [] k = 5 -> { <<"2", ".", "0", "E", "-", "3">>, <<"0", ".", "0", "0", "5">>, <<>>,
                    VisaIOError }

IdnReplies == { <<"K", "6", "2", "2", "0">>, VisaIOError }

AllElements ==
    << "R", "E", "A", "D", ",", "U", "N", "I", "T", ",", "R", "N", "U", "M", ",",
       "T", "S", "T", ",", "C", "O", "M", "P", ",", "S", "O", "U", "R", ",",
       "A", "V", "O", "L" >>

FormElemReplies == { AllElements, <<"R", "E", "A", "D">>, VisaIOError }

\* answers to TRAC:POIN?: the 11 readings of PlanA, another size, text that is no
\* integer, an empty line and no answer
BufferReplies == { <<"1", "1">>, <<"2">>, <<"1", "1", ".", "0">>, <<>>, VisaIOError }

\* the two values of output_state
ON == << "O", "N" >>

OFF == << "O", "F", "F" >>

\* the number of transport calls of a log that raised
Faults(log) == Cardinality({i \in 1..Len(log) : ~log[i].ok})

\* at most this many transport calls raise within one handler
MaxFaults == 1

-----------------------------------------------------------------------------
(* Keithley6220: raw command and query *)

\* the earlier revision of the error check: a leading sign alone
query_6220_response_sign_only(raw) ==
    IF raw = VisaIOError THEN None
    ELSE LET response == strip(raw)
         IN  IF response = <<>> \/ response[1] \in {"-", "+"} THEN None ELSE response

\* query_6220, from the stripped line to the return value: None for an empty line
\* and for a line with a comma that starts with a sign
query_6220_response(raw) ==
    IF raw = VisaIOError THEN None
    ELSE LET response == strip(raw)
         IN  IF response = <<>> THEN None
             ELSE IF IndexOf(response, {","}) # 0 /\ response[1] \in {"-", "+"} THEN None
             ELSE response

\* query_6220(command): the possible (return value, transport log) pairs.  With
\* self.instrument None the attribute access raises, which is caught: None, and
\* nothing reaches the transport.
query_6220(inst, command, replies) ==
    IF inst = "None" THEN { [resp |-> None, io |-> <<>>] }
    ELSE { [resp |-> query_6220_response(r),
            io   |-> << Call(command, <<>>, r # VisaIOError) >>] : r \in replies }

\* send_command_to_6220(command): the possible transport logs; a raising write is
\* caught and printed
send_command_to_6220(inst, command, arg) ==
    IF inst = "None" THEN { <<>> }
    ELSE { << Call(command, arg, TRUE) >>, << Call(command, arg, FALSE) >> }

\* a series of send_command_to_6220 calls
RECURSIVE SendAll(_, _)
SendAll(inst, calls) ==
    IF calls = <<>> THEN { <<>> }
    ELSE { h \o t : h \in send_command_to_6220(inst, calls[1][1], calls[1][2]),
                    t \in SendAll(inst, Tail(calls)) }

-----------------------------------------------------------------------------
(* Keithley6220: queries of the arming preconditions *)

\* the answers each of the five parameter queries may get
ParamReplySets == [k \in 1..5 |-> ParamReplies(k)]

\* verify_params, from its k-th query on: log is the transport log so far, eq
\* whether the values queried so far equal the stored ones, replies[k] what the
\* k-th query may answer.  float() of None or of text that is no number raises,
\* which ends the method with False.
RECURSIVE verify_params_from(_, _, _, _, _, _)
verify_params_from(inst, sweep, k, log, eq, replies) ==
    IF k > 5 THEN { [ret |-> eq, io |-> log] }
    ELSE UNION { LET f == float(q.resp)
                 IN  IF ~f.ok THEN { [ret |-> FALSE, io |-> log \o q.io] }
                     ELSE verify_params_from(inst, sweep, k + 1, log \o q.io,
                              eq /\ FloatEquals(f, sweep[k], IF k = 5 THEN 3 ELSE 9), replies)
                 : q \in query_6220(inst, ParamQueries[k], replies[k]) }

\* verify_params with the given answers to its queries
verify_params_with(inst, sweep, replies) ==
    verify_params_from(inst, sweep, 1, <<>>, TRUE, replies)

verify_params(inst, sweep) == verify_params_with(inst, sweep, ParamReplySets)

check_2182a_presence(inst) ==
    { [ret |-> q.resp = <<"1">>, resp |-> q.resp, io |-> q.io]
      : q \in query_6220(inst, "SOUR:DELTA:NVPResent?", StatusReplies) }

check_interlock_status(inst) ==
    { [ret |-> q.resp = <<"1">>, resp |-> q.resp, io |-> q.io]
      : q \in query_6220(inst, "OUTP:INT:TRIPped?", StatusReplies) }

\* check_arm_status: True for "1", False for "0", and None (the method falls off
\* its end) for anything else
check_arm_status_value(resp) ==
    IF resp = <<"1">> THEN <<"True">>
    ELSE IF resp = <<"0">> THEN <<"False">>
    ELSE None

check_arm_status(inst) ==
    { [ret |-> check_arm_status_value(q.resp), io |-> q.io]
      : q \in query_6220(inst, "SOUR:DCON:ARM?", StatusReplies) }

\* the write of the arm command
send_arm_skipped(inst) == { <<>> }

send_arm(inst) == send_command_to_6220(inst, "SOUR:DCON:ARM", <<>>)

\* the core arm_device once the 2182A was found (v, p: the outcomes of the
\* verification and of the presence check): the interlock, then the arm command
arm_after_presence(inst, v, p) ==
    UNION { IF ~i.ret
            THEN { [ret |-> FALSE, io |-> v.io \o p.io \o i.io,
                    chk |-> << Bool(v.ret), p.resp, i.resp >>] }
            ELSE { [ret |-> TRUE, io |-> v.io \o p.io \o i.io \o w,
                    chk |-> << Bool(v.ret), p.resp, i.resp >>] : w \in send_arm(inst) }
            : i \in check_interlock_status(inst) }

arm_after_verify_no_return(inst, v) ==
    UNION { { [ret |-> o.ret /\ p.ret, io |-> o.io, chk |-> o.chk]
              : o \in arm_after_presence(inst, v, p) }
            : p \in check_2182a_presence(inst) }

\* the core arm_device once the parameters were verified: the presence check and
\* what follows it
arm_after_verify(inst, v) ==
    UNION { IF ~p.ret
            THEN { [ret |-> FALSE, io |-> v.io \o p.io, chk |-> << Bool(v.ret), p.resp >>] }
            ELSE arm_after_presence(inst, v, p)
            : p \in check_2182a_presence(inst) }

Keithley6220_arm_device_unverified(inst, sweep) ==
    UNION { arm_after_verify(inst, v) : v \in verify_params(inst, sweep) }

\* the core arm_device: verify, presence, interlock, then the arm command, each
\* failing check returning False at once.  chk holds what each precondition
\* evaluated in this call gave.
Keithley6220_arm_device(inst, sweep) ==
    UNION { IF ~v.ret
            THEN { [ret |-> FALSE, io |-> v.io, chk |-> << Bool(v.ret) >>] }
            ELSE arm_after_verify(inst, v)
            : v \in verify_params(inst, sweep) }

\* the core abort_process: the abort command; True whatever the write did
Keithley6220_abort_process(inst) ==
    { [ret |-> TRUE, io |-> w] : w \in send_command_to_6220(inst, "SOUR:SWE:ABOR", <<>>) }

\* the core initialize_differential_conductance: the arming status is queried
\* again; unless it is True the method returns False, else INIT:IMM is written and
\* the method returns True whatever the write did
Keithley6220_initialize_differential_conductance(inst) ==
    UNION { IF q.ret # True
            THEN { [ret |-> FALSE, io |-> q.io, chk |-> << q.ret >>] }
            ELSE { [ret |-> TRUE, io |-> q.io \o w, chk |-> << q.ret >>]
                   : w \in send_command_to_6220(inst, "INIT:IMM", <<>>) }
            : q \in check_arm_status(inst) }

-----------------------------------------------------------------------------
(* Keithley6220: set_differential_conductance_params *)

\* validate_param: no ValueError
validate_param(value, min_val, max_val) == min_val <= value /\ value <= max_val

\* math.ceil(a / b), without the rounding
CeilRound6_unrounded(a, b) == IF a % b = 0 THEN a \div b ELSE (a \div b) + 1

\* math.ceil(round(a / b, 6)) for integers a >= 0 and b > 0: a quotient less than
\* 0.0000005 above an integer rounds down to it
CeilRound6(a, b) ==
    LET f == a \div b
        r == a % b
    IN  IF r = 0 \/ r <= (b - 1) \div 2000000 THEN f ELSE f + 1

Abs(x) == IF x < 0 THEN 0 - x ELSE x

\* the six validation rules in the order the code checks them, each with the text
\* its ValueError starts with and whether the call's parameters pass it (the step
\* minimum of 1e-12 A lies below one nanoampere, the delay maximum of 9999.999 s
\* is 9999999 ms)
ValidationRules(in) ==
    << [name |-> "Start value", ok |-> validate_param(in.start, 0 - 105000000, 105000000)],
       [name |-> "Stop value",  ok |-> validate_param(in.stop, 0 - 105000000, 105000000)],
       [name |-> "Step size",   ok |-> validate_param(in.step, 1, 105000000)],
       [name |-> "Delay value", ok |-> validate_param(in.delay, 1, 9999999)],
       [name |-> "Delta value", ok |-> validate_param(in.delta, 10000, 105000000)],
       [name |-> "Stop value must be greater than start value",
        ok |-> ~(in.stop <= in.start)] >>

FirstViolated_last(rules) ==
    IF \A i \in 1..Len(rules) : rules[i].ok THEN 0
    ELSE CHOOSE i \in 1..Len(rules) : ~rules[i].ok /\ \A j \in (i + 1)..Len(rules) : rules[j].ok

\* the rule that raises: the first one in the order of the code that fails, 0 if
\* all pass
FirstViolated(rules) ==
    IF \A i \in 1..Len(rules) : rules[i].ok THEN 0
    ELSE CHOOSE i \in 1..Len(rules) : ~rules[i].ok /\ \A j \in 1..(i - 1) : rules[j].ok

\* the call's parameters pass the six validation rules
ParamsValid(in) == FirstViolated(ValidationRules(in)) = 0

PointsOf(in) == CeilRound6(Abs(in.stop - in.start), in.step) + 1

MaxBufferPoints == 65530

ExceedsCapacity_never(points) == FALSE

\* the capacity check: more readings than the buffer of the 6220 holds
ExceedsCapacity(points) == points > MaxBufferPoints

\* str(n) for an integer n >= 0
RECURSIVE str(_)
str(n) ==
    LET d == << "0", "1", "2", "3", "4", "5", "6", "7", "8", "9" >>[(n % 10) + 1]
    IN  IF n < 10 THEN << d >> ELSE str(n \div 10) \o << d >>

\* f"{t:.3f}" for a time t >= 0 of ms milliseconds
format_3f(ms) ==
    LET frac == str(ms % 1000)
    IN  str(ms \div 1000) \o << "." >> \o SubSeq(<< "0", "0" >>, 1, 3 - Len(frac)) \o frac

\* int(text): an optional sign and digits, or a ValueError (ok = FALSE)
int(text) ==
    LET neg  == text # <<>> /\ text[1] = "-"
        body == IF text # <<>> /\ text[1] \in {"+", "-"} THEN Tail(text) ELSE text
    IN  IF body # <<>> /\ AllDigits(body)
        THEN [ok |-> TRUE, v |-> IF neg THEN 0 - DigitsVal(body) ELSE DigitsVal(body)]
        ELSE [ok |-> FALSE, v |-> 0]

\* verify_buffer_size: TRAC:POIN? read back and compared with self.total_points;
\* no answer, an answer that is no integer and another size all give False
verify_buffer_size(inst, points) ==
    { [ret |-> q.resp # None /\ int(q.resp).ok /\ int(q.resp).v = points, io |-> q.io]
      : q \in query_6220(inst, "TRAC:POIN?", BufferReplies) }

set_buffer_size_unverified(inst, points) ==
    { [ret |-> TRUE, io |-> w] : w \in send_command_to_6220(inst, "TRAC:POIN", <<points>>) }

\* set_buffer_size: TRAC:POIN <self.total_points> written, then read back
set_buffer_size(inst, points) ==
    { [ret |-> v.ret, io |-> w \o v.io]
      : w \in send_command_to_6220(inst, "TRAC:POIN", <<points>>),
        v \in verify_buffer_size(inst, points) }

\* the sweeps the operator may enter while arming is studied: the plan of the
\* specification's example (0 A to 10 mA in 1 mA steps, 2 ms, 10 uA: 11 points),
\* a start out of range, a stop below the start, and a step that needs more than
\* 65530 points
PlanA == [start |-> 0, stop |-> 10000000, step |-> 1000000, delay |-> 2, delta |-> 10000]

SweepInputs ==
    { PlanA,
      [PlanA EXCEPT !.start = 200000000],
      [PlanA EXCEPT !.start = 50000000],
      [PlanA EXCEPT !.stop = 100000000, !.step = 1000] }

\* the value the method returns when a ValueError was raised: None and the
\* message, kept as the one token that names the rule
Rejected(rule) == << None, << rule >> >>

\* set_differential_conductance_params: the possible outcomes, each with the
\* fields of self after the call and the returned pair.  self.total_points is
\* assigned before the capacity check; what set_buffer_size returns is not used
\* (buf records it).
set_differential_conductance_params(inst, in, sweep, tp, et) ==
    LET rules == ValidationRules(in)
        bad   == FirstViolated(rules)
    IN
    IF bad # 0
    THEN { [ok |-> FALSE, io |-> <<>>, plan |-> sweep, tp |-> tp, et |-> et, buf |-> <<>>,
            ret |-> Rejected(rules[bad].name)] }
    ELSE IF ExceedsCapacity(PointsOf(in))
    THEN { [ok |-> FALSE, io |-> <<>>, plan |-> sweep, tp |-> <<PointsOf(in)>>, et |-> et,
            buf |-> <<>>, ret |-> Rejected("Calculated buffer size exceeds maximum limit")] }
    ELSE { [ok   |-> TRUE,
            io   |-> b.io \o w,
            plan |-> << <<in.start>>, <<in.stop>>, <<in.step>>, <<in.delta>>, <<in.delay>> >>,
            tp   |-> <<PointsOf(in)>>,
            et   |-> <<PointsOf(in) * in.delay>>,
            buf  |-> << Bool(b.ret) >>,
            ret  |-> << str(PointsOf(in)), format_3f(PointsOf(in) * in.delay) >>]
           : b \in set_buffer_size(inst, PointsOf(in)),
             w \in SendAll(inst, << <<"SOUR:DCON:STAR", <<in.start>> >>,
                                    <<"SOUR:DCON:STOP", <<in.stop>> >>,
                                    <<"SOUR:DCON:STEP", <<in.step>> >>,
                                    <<"SOUR:DCON:DELTA", <<in.delta>> >>,
                                    <<"SOUR:DCON:DELay", <<in.delay>> >> >>) }

-----------------------------------------------------------------------------
(* Keithley6220Qt: the handlers the window calls *)

ARM_CHECK_INTERVAL == 1000

ARM_TIMEOUT == 20

Init ==
    /\ instrument = "None"
    /\ start = <<>>
    /\ stop = <<>>
    /\ step = <<>>
    /\ delta = <<>>
    /\ delay = <<>>
    /\ total_points = <<>>
    /\ estimated_time = <<>>
    /\ is_armed = FALSE
    /\ under_arming = FALSE
    /\ elapsed_time = 0
    /\ arming_timeout = 20
    /\ arm_timer = FALSE
    /\ op = "__init__"
    /\ io = <<>>
    /\ emitted = <<>>
    /\ ret = None
    /\ chk = <<>>
    /\ args = <<>>
    /\ output_state = None
    /\ inner_shield_status = None
    /\ output_low_status = None
    /\ current_values = <<>>
    /\ voltage_values = <<>>
    /\ device_output = OFF
    /\ nv_instrument = "None"
    /\ device_connected = FALSE

plan == <<start, stop, step, delta, delay>>

\* connect_device: open the resource (which may fail, leaving self.instrument as
\* it was), query the identity, enable all data elements, look for the 2182A
connect_device ==
    /\ op' = "connect_device"
    /\ args' = <<>>
    /\ chk' = <<>>
    /\ ret' = None
    /\ \/ /\ io' = << Call("open_resource", <<>>, FALSE) >>
          /\ emitted' = << Signal("connected_signal", "False", "Error connecting to device") >>
          /\ UNCHANGED instrument
       \/ /\ instrument' = "open"
          /\ \E id \in query_6220("open", "*IDN?", IdnReplies),
                w \in send_command_to_6220("open", "FORM:ELEM ALL", <<>>),
                f \in query_6220("open", "FORM:ELEM?", FormElemReplies),
                n \in check_2182a_presence("open") :
                /\ io' = << Call("open_resource", <<>>, TRUE) >> \o id.io \o w \o f.io \o n.io
                /\ Faults(io') <= MaxFaults
                /\ emitted' =
                     << Signal("connected_signal", "True", "Connected") >>
                     \o (IF f.resp = AllElements THEN <<>>
                         ELSE << Signal("error_signal", "Failed to enable all data output.", "") >>)
                     \o << Signal("nv_2182a_signal",
                                  IF n.ret THEN "Connected" ELSE "Not detected.", "") >>
    /\ UNCHANGED <<planVars, armVars, cacheVars, dataVars, outsideVars>>

\* disconnect_device: close and drop the handle if there is one
disconnect_device ==
    /\ op' = "disconnect_device"
    /\ args' = <<>>
    /\ chk' = <<>>
    /\ ret' = None
    /\ io' = IF instrument = "open" THEN << Call("close", <<>>, TRUE) >> ELSE <<>>
    /\ instrument' = "None"
    /\ emitted' = << Signal("connected_signal", "False", "Disconnected") >>
    /\ UNCHANGED <<planVars, armVars, cacheVars, dataVars, outsideVars>>

\* set_diff_cond_params(start, stop, step, delay, delta): the core call, then
\* params_set_signal with the returned pair or error_signal with the message
set_diff_cond_params(in) ==
    /\ op' = "set_diff_cond_params"
    /\ args' = << in.start, in.stop, in.step, in.delay, in.delta >>
    /\ \E o \in set_differential_conductance_params(instrument, in, plan,
                                                    total_points, estimated_time) :
          /\ Faults(o.io) <= MaxFaults
          /\ io' = o.io
          /\ ret' = o.ret
          /\ chk' = o.buf
          /\ start' = o.plan[1]
          /\ stop' = o.plan[2]
          /\ step' = o.plan[3]
          /\ delta' = o.plan[4]
          /\ delay' = o.plan[5]
          /\ total_points' = o.tp
          /\ estimated_time' = o.et
          /\ emitted' = IF o.ok THEN << Signal("params_set_signal", "", "") >>
                        ELSE << Signal("error_signal", "Validation Error", o.ret[2][1]) >>
    /\ UNCHANGED <<instrument, armVars, cacheVars, dataVars, outsideVars>>

ArmingInProgress_ignored == FALSE

\* the guard of arm_device: an arming session is in progress
ArmingInProgress == under_arming

\* arm_device: rejected while arming; otherwise the core arm_device and, when it
\* succeeds, the flag and monitor_arming_status (elapsed time reset, timeout set,
\* timer started)
arm_device ==
    /\ op' = "arm_device"
    /\ args' = <<>>
    /\ IF ArmingInProgress
       THEN /\ emitted' = << Signal("arming_signal", "False", "Arming already in progress.") >>
            /\ io' = <<>>
            /\ ret' = None
            /\ chk' = <<>>
            /\ UNCHANGED <<under_arming, elapsed_time, arming_timeout, arm_timer>>
       ELSE \E o \in Keithley6220_arm_device(instrument, plan) :
            /\ Faults(o.io) <= MaxFaults
            /\ io' = o.io
            /\ ret' = Bool(o.ret)
            /\ chk' = o.chk
            /\ IF o.ret
               THEN /\ under_arming' = TRUE
                    /\ emitted' = << Signal("arming_signal", "True", "Arming process initiated.") >>
                    /\ elapsed_time' = 0
                    /\ arming_timeout' = ARM_TIMEOUT
                    /\ arm_timer' = TRUE
               ELSE /\ emitted' = << Signal("arming_signal", "False",
                                            "Failed to arm the device. Check preconditions.") >>
                    /\ UNCHANGED <<under_arming, elapsed_time, arming_timeout, arm_timer>>
    /\ UNCHANGED <<instrument, planVars, is_armed, cacheVars, dataVars, outsideVars>>

PollArmed_not_none(status) == status # None

\* the poll of _check_arming_progress found the device armed
PollArmed(status) == status = True

TimedOut_strict(elapsed, timeout) == elapsed > timeout

\* the elapsed time after one more poll has reached the timeout
TimedOut(elapsed, timeout) == elapsed >= timeout

\* _check_arming_progress, the slot of arm_timer: one poll of SOUR:DCON:ARM?
check_arming_progress ==
    /\ arm_timer
    /\ op' = "_check_arming_progress"
    /\ args' = <<>>
    /\ chk' = <<>>
    /\ \E q \in check_arm_status(instrument) :
          /\ io' = q.io
          /\ ret' = q.ret
          /\ IF PollArmed(q.ret)
             THEN /\ emitted' = << Signal("arming_signal", "True", "Device successfully armed."),
                                   Signal("arm_status_signal", "True", "") >>
                  /\ under_arming' = FALSE
                  /\ is_armed' = TRUE
                  /\ arm_timer' = FALSE
                  /\ UNCHANGED elapsed_time
             ELSE /\ elapsed_time' = elapsed_time + (ARM_CHECK_INTERVAL \div 1000)
                  /\ IF TimedOut(elapsed_time', arming_timeout)
                     THEN /\ emitted' = << Signal("arming_signal", "False",
                                                  "Arming process timed out.") >>
                          /\ under_arming' = FALSE
                          /\ arm_timer' = FALSE
                     ELSE /\ emitted' = <<>>
                          /\ UNCHANGED <<under_arming, arm_timer>>
                  /\ UNCHANGED is_armed
    /\ UNCHANGED <<instrument, planVars, arming_timeout, cacheVars, dataVars, outsideVars>>

\* a stopped timer whose next timeout is still delivered
QTimer_stop_pending(active) == active

\* self.arm_timer.stop(): the timer is inactive, whether or not it was active
QTimer_stop(active) == FALSE

AbortNotNeeded_ignored == FALSE

\* the guard of abort_process: nothing to abort
AbortNotNeeded == ~is_armed

\* abort_process: refused when not armed; otherwise the core abort_process, the
\* timer stopped and the armed flag cleared
abort_process ==
    /\ op' = "abort_process"
    /\ args' = <<>>
    /\ chk' = <<>>
    /\ IF AbortNotNeeded
       THEN /\ emitted' = << Signal("abort_signal", "False",
                                    "Abort not needed: Device is not armed.") >>
            /\ io' = <<>>
            /\ ret' = False
            /\ UNCHANGED <<is_armed, arm_timer>>
       ELSE \E o \in Keithley6220_abort_process(instrument) :
            /\ io' = o.io
            /\ ret' = None
            /\ IF o.ret
               THEN /\ arm_timer' = QTimer_stop(arm_timer)
                    /\ emitted' = << Signal("abort_signal", "True",
                                            "Process aborted successfully.") >>
                    /\ is_armed' = FALSE
               ELSE /\ emitted' = << Signal("abort_signal", "False",
                                            "Failed to abort process.") >>
                    /\ UNCHANGED <<is_armed, arm_timer>>
    /\ UNCHANGED <<instrument, planVars, under_arming, elapsed_time, arming_timeout,
                   cacheVars, dataVars, outsideVars>>

\* check_arm: query the arming status and store it in self.is_armed unless None
check_arm ==
    /\ op' = "check_arm"
    /\ args' = <<>>
    /\ chk' = <<>>
    /\ \E q \in check_arm_status(instrument) :
          /\ io' = q.io
          /\ ret' = q.ret
          /\ IF q.ret # None
             THEN /\ emitted' = << Signal("arm_status_signal", q.ret[1], "") >>
                  /\ is_armed' = (q.ret = True)
             ELSE /\ emitted' = << Signal("error_signal",
                                          "Unexpected arming status response.", "") >>
                  /\ UNCHANGED is_armed
    /\ UNCHANGED <<instrument, planVars, under_arming, elapsed_time, arming_timeout, arm_timer,
                   cacheVars, dataVars, outsideVars>>

\* stop_arming_monitor: stop the timer and clear the flag
stop_arming_monitor ==
    /\ op' = "stop_arming_monitor"
    /\ args' = <<>>
    /\ chk' = <<>>
    /\ io' = <<>>
    /\ ret' = None
    /\ emitted' = <<>>
    /\ arm_timer' = QTimer_stop(arm_timer)
    /\ under_arming' = FALSE
    /\ UNCHANGED <<instrument, planVars, is_armed, elapsed_time, arming_timeout,
                   cacheVars, dataVars, outsideVars>>

StartNotArmed_ignored == FALSE

\* the guard of initialize_differential_conductance: the stored flag says the
\* device is not armed
StartNotArmed == ~is_armed

\* initialize_differential_conductance: refused on the stored flag; otherwise the
\* core call, and measurement_signal with its outcome.  No timer is started.
initialize_differential_conductance ==
    /\ op' = "initialize_differential_conductance"
    /\ args' = <<>>
    /\ IF StartNotArmed
       THEN /\ emitted' = << Signal("measurement_signal", "False",
                                    "Device is not armed. Run 'Arm Device' first.") >>
            /\ io' = <<>>
            /\ chk' = <<>>
            /\ ret' = False
       ELSE \E o \in Keithley6220_initialize_differential_conductance(instrument) :
            /\ Faults(o.io) <= MaxFaults
            /\ io' = o.io
            /\ chk' = o.chk
            /\ ret' = Bool(o.ret)
            /\ emitted' = IF o.ret
                          THEN << Signal("measurement_signal", "True",
                                         "Differential Conductance Measurement Started.") >>
                          ELSE << Signal("measurement_signal", "False",
                                         "Failed to start measurement.") >>
    /\ UNCHANGED <<instrument, planVars, armVars, cacheVars, dataVars, outsideVars>>

Next ==
    \/ connect_device
    \/ disconnect_device
    \/ \E in \in SweepInputs : set_diff_cond_params(in)
    \/ arm_device
    \/ check_arming_progress
    \/ abort_process
    \/ check_arm
    \/ stop_arming_monitor
    \/ initialize_differential_conductance

Spec == Init /\ [][Next]_vars

-----------------------------------------------------------------------------
(* Configuration and verification on their own, with more sweeps to enter *)

\* the sweeps the operator may enter while configuration is studied: PlanA; a
\* step that does not divide the span (10 mA in 3 mA steps); a negative start;
\* a span one nanoampere above one step of 100 mA, which round(., 6) brings
\* back to one step; a span of one nanoampere, which it brings down to no step
\* at all; the largest sweep the buffer holds (65529 steps) and the
\* smallest it does not (65530 steps); and calls that break one rule or several
ConfigureInputs ==
    { PlanA,
      [PlanA EXCEPT !.step = 3000000],
      [PlanA EXCEPT !.start = 0 - 5000000, !.stop = 5000000],
      [PlanA EXCEPT !.stop = 100000001, !.step = 100000000],
      [PlanA EXCEPT !.stop = 65529000, !.step = 1000],
      [PlanA EXCEPT !.stop = 65530000, !.step = 1000],
      [PlanA EXCEPT !.start = 200000000],
      [PlanA EXCEPT !.start = 50000000],
      [PlanA EXCEPT !.stop = 0 - 200000000],
      [PlanA EXCEPT !.step = 0, !.delay = 0],
      [PlanA EXCEPT !.delay = 0],
      [PlanA EXCEPT !.start = 50000000, !.delta = 1000],
      [PlanA EXCEPT !.start = 10000000, !.step = 200000000],
      [PlanA EXCEPT !.stop = 1, !.step = 100000000] }

\* verify_params called on its own: rs is what the device answers to each of the
\* five queries (an answer to a query that is not made is left out of the
\* choice); chk records what query_6220 returned for the queries made
Keithley6220_verify_params ==
    /\ op' = "verify_params"
    /\ args' = <<>>
    /\ \E r1 \in ParamReplies(1), r2 \in ParamReplies(2), r3 \in ParamReplies(3),
          r4 \in ParamReplies(4), r5 \in ParamReplies(5) :
       LET rs == << r1, r2, r3, r4, r5 >> IN
       \E v \in verify_params_with(instrument, plan, [k \in 1..5 |-> {rs[k]}]) :
          /\ \A k \in (Len(v.io) + 1)..5 : rs[k] = VisaIOError
          /\ Faults(v.io) <= MaxFaults
          /\ io' = v.io
          /\ ret' = Bool(v.ret)
          /\ chk' = [k \in 1..Len(v.io) |-> query_6220_response(rs[k])]
    /\ emitted' = <<>>
    /\ UNCHANGED <<instrument, planVars, armVars, cacheVars, dataVars, outsideVars>>

NextConfigure ==
    \/ connect_device
    \/ disconnect_device
    \/ \E in \in ConfigureInputs : set_diff_cond_params(in)

SpecConfigure == Init /\ [][NextConfigure]_vars

NextVerify ==
    \/ connect_device
    \/ disconnect_device
    \/ \E in \in SweepInputs : set_diff_cond_params(in)
    \/ Keithley6220_verify_params

SpecVerify == Init /\ [][NextVerify]_vars

-----------------------------------------------------------------------------
(* The cached device status: output state, inner shield, output low *)

\* answers to OUTP:STATe? and OUTP:LTEarth?
OnOffReplies == { <<"1">>, <<"0">>, <<>>, VisaIOError }

\* answers to OUTP:ISHield?
ShieldReplies == { <<"G", "U", "A", "R">>, <<"o", "l", "o", "w">>, <<>>, VisaIOError }

\* str.upper(), for the letters of the answers above
upper(text) ==
    [i \in 1..Len(text) |->
        CASE text[i] = "o" -> "O" [] text[i] = "l" -> "L" [] text[i] = "w" -> "W"
          [] text[i] = "g" -> "G" [] text[i] = "u" -> "U" [] text[i] = "a" -> "A"
          [] text[i] = "r" -> "R" [] OTHER -> text[i]]

\* what an answer to OUTP:STATe? says of the output of the instrument: on for
\* "1", off for "0", nothing for any other line and without an answer
OutputTold(resp) ==
    IF resp = None THEN None
    ELSE IF strip(resp) = <<"1">> THEN ON
    ELSE IF strip(resp) = <<"0">> THEN OFF
    ELSE None

\* the core update_output_state: "ON" for the answer "1", "OFF" for any other
\* answer; without an answer .strip() raises and None is returned
Keithley6220_update_output_state(inst) ==
    { [ret  |-> IF q.resp = None THEN None ELSE IF strip(q.resp) = <<"1">> THEN ON ELSE OFF,
       told |-> OutputTold(q.resp),
       io   |-> q.io] : q \in query_6220(inst, "OUTP:STATe?", OnOffReplies) }

\* the output of the instrument after a handler that may have written OUTP ON or
\* OUTP OFF and has queried OUTP:STATe?: what the instrument answered, else the
\* state commanded by an accepted write, else the state before
OutputAfter(output, written, wanted, told) ==
    IF told # None THEN told
    ELSE IF written # <<>> /\ written[1].ok THEN wanted
    ELSE output

\* update_output_state: the core call stores what it returns unless it is None;
\* output_state_signal or error_signal follows
update_output_state ==
    /\ op' = "update_output_state"
    /\ args' = <<>>
    /\ chk' = <<>>
    /\ \E o \in Keithley6220_update_output_state(instrument) :
          /\ io' = o.io
          /\ ret' = o.ret
          /\ device_output' = OutputAfter(device_output, <<>>, OFF, o.told)
          /\ IF o.ret # None
             THEN /\ output_state' = o.ret
                  /\ emitted' = << Signal("output_state_signal", "", "") >>
             ELSE /\ UNCHANGED output_state
                  /\ emitted' = << Signal("error_signal",
                                          "Error: Failed to retrieve output state.", "") >>
    /\ UNCHANGED <<instrument, planVars, armVars, inner_shield_status, output_low_status,
                   dataVars, nvVars>>

\* the guard of turn_output_on and turn_output_off: the stored state is already
\* the wanted one
OutputCached(cached, wanted) == cached = wanted

\* turn_output_on / turn_output_off: nothing is done when the stored state is
\* already the wanted one; otherwise the command is written and the state is
\* read again with update_output_state
turn_output(name, command, wanted) ==
    /\ op' = name
    /\ args' = <<>>
    /\ ret' = None
    /\ IF OutputCached(output_state, wanted)
       THEN /\ io' = <<>>
            /\ chk' = << True >>
            /\ emitted' = <<>>
            /\ UNCHANGED <<output_state, device_output>>
       ELSE \E w \in send_command_to_6220(instrument, command, <<>>),
               o \in Keithley6220_update_output_state(instrument) :
            /\ io' = w \o o.io
            /\ Faults(io') <= MaxFaults
            /\ chk' = << False >>
            /\ device_output' = OutputAfter(device_output, w, wanted, o.told)
            /\ IF o.ret # None
               THEN /\ output_state' = o.ret
                    /\ emitted' = << Signal("output_state_signal", "", "") >>
               ELSE /\ UNCHANGED output_state
                    /\ emitted' = << Signal("error_signal",
                                            "Error: Failed to retrieve output state.", "") >>
    /\ UNCHANGED <<instrument, planVars, armVars, inner_shield_status, output_low_status,
                   dataVars, nvVars>>

turn_output_on == turn_output("turn_output_on", "OUTP ON", ON)

turn_output_off == turn_output("turn_output_off", "OUTP OFF", OFF)

\* update_inner_shield_status: the answer to OUTP:ISHield?, in upper case, is
\* stored; without an answer nothing is stored
update_inner_shield_status ==
    /\ op' = "update_inner_shield_status"
    /\ args' = <<>>
    /\ chk' = <<>>
    /\ \E q \in query_6220(instrument, "OUTP:ISHield?", ShieldReplies) :
          /\ io' = q.io
          /\ IF q.resp # None
             THEN /\ ret' = upper(strip(q.resp))
                  /\ inner_shield_status' = upper(strip(q.resp))
                  /\ emitted' = << Signal("inner_shield_signal", "", "") >>
             ELSE /\ ret' = None
                  /\ UNCHANGED inner_shield_status
                  /\ emitted' = << Signal("inner_shield_error_signal",
                                          "Error: Failed to retrieve inner shield status.", "") >>
    /\ UNCHANGED <<instrument, planVars, armVars, output_state, output_low_status, dataVars, outsideVars>>

\* query_output_low_setting: the answer to OUTP:LTEarth? is stored when it is "0"
\* or "1"
query_output_low_setting ==
    /\ op' = "query_output_low_setting"
    /\ args' = <<>>
    /\ chk' = <<>>
    /\ emitted' = <<>>
    /\ \E q \in query_6220(instrument, "OUTP:LTEarth?", OnOffReplies) :
          /\ io' = q.io
          /\ IF q.resp \in { <<"0">>, <<"1">> }
             THEN /\ ret' = q.resp
                  /\ output_low_status' = q.resp
             ELSE /\ ret' = None
                  /\ UNCHANGED output_low_status
    /\ UNCHANGED <<instrument, planVars, armVars, output_state, inner_shield_status, dataVars, outsideVars>>

\* is_output_off that takes every answer but "1" for an output that is off
is_output_off_unless_on(inst) ==
    { [ret  |-> Bool(q.resp # << "1" >>), io |-> q.io, resp |-> q.resp]
      : q \in query_6220(inst, "OUTP:STATe?", StatusReplies) }

\* is_output_off(): True for the answer "0", False for any other answer; without
\* an answer .strip() raises and None is returned
is_output_off(inst) ==
    { [ret  |-> IF q.resp = None THEN None ELSE Bool(strip(q.resp) = << "0" >>),
       io   |-> q.io,
       resp |-> q.resp] : q \in query_6220(inst, "OUTP:STATe?", StatusReplies) }

OUTPUT_ON == << "OUTPUT_ON" >>

\* the core set_inner_shield_to_guard: "OUTPUT_ON" unless is_output_off() is
\* True; otherwise OUTP:ISHield GUARd is sent and OUTP:ISHield? read back
Keithley6220_set_inner_shield_to_guard(inst) ==
    UNION { IF s.ret # True
            THEN { [ret |-> OUTPUT_ON, io |-> s.io, state |-> s.resp] }
            ELSE { [ret   |-> IF q.resp = None THEN False
                              ELSE Bool(upper(strip(q.resp))
                                          \in { << "G", "U", "A", "R", "D" >>,
                                                << "G", "U", "A", "R" >> }),
                    io    |-> s.io \o w \o q.io,
                    state |-> s.resp]
                   : w \in send_command_to_6220(inst, "OUTP:ISHield GUARd", <<>>),
                     q \in query_6220(inst, "OUTP:ISHield?", ShieldReplies) }
          : s \in is_output_off(inst) }

\* set_inner_shield_to_guard: the core call, then inner_shield_signal or the
\* error_signal that names the outcome
set_inner_shield_to_guard ==
    /\ op' = "set_inner_shield_to_guard"
    /\ args' = <<>>
    /\ \E o \in Keithley6220_set_inner_shield_to_guard(instrument) :
          /\ Faults(o.io) <= MaxFaults
          /\ io' = o.io
          /\ chk' = << o.state >>
          /\ ret' = o.ret
          /\ emitted' =
               << IF o.ret = True THEN Signal("inner_shield_signal", "GUARD", "")
                  ELSE IF o.ret = OUTPUT_ON
                  THEN Signal("error_signal", "Cannot change inner shield: Output is ON.", "")
                  ELSE Signal("error_signal",
                              "Warning: Inner shield setting not confirmed.", "") >>
    /\ UNCHANGED <<instrument, planVars, armVars, cacheVars, dataVars, outsideVars>>

\* answers to OUTP:LTEarth? after a change: those of OnOffReplies and OFF
LowReplies == OnOffReplies \cup { OFF }

\* set_output_low_floating and set_output_low_grounded: False unless
\* is_output_off() is True; otherwise the command is sent and OUTP:LTEarth? read
\* back and compared with the answer expected
set_output_low(name, command, expected) ==
    /\ op' = name
    /\ args' = <<>>
    /\ emitted' = <<>>
    /\ \E s \in is_output_off(instrument) :
          /\ chk' = << s.resp >>
          /\ IF s.ret # True
             THEN /\ io' = s.io
                  /\ ret' = False
             ELSE \E w \in send_command_to_6220(instrument, command, <<>>),
                     q \in query_6220(instrument, "OUTP:LTEarth?", LowReplies) :
                     /\ io' = s.io \o w \o q.io
                     /\ Faults(io') <= MaxFaults
                     /\ ret' = IF q.resp = None THEN False ELSE Bool(upper(q.resp) = expected)
    /\ UNCHANGED <<instrument, planVars, armVars, cacheVars, dataVars, outsideVars>>

set_output_low_floating == set_output_low("set_output_low_floating", "OUTP:LTEarth OFF", OFF)

set_output_low_grounded ==
    set_output_low("set_output_low_grounded", "OUTP:LTEarth ON", << "1" >>)

NextOutput ==
    \/ connect_device
    \/ disconnect_device
    \/ update_output_state
    \/ turn_output_on
    \/ turn_output_off
    \/ update_inner_shield_status
    \/ query_output_low_setting
    \/ set_inner_shield_to_guard
    \/ set_output_low_floating
    \/ set_output_low_grounded

SpecOutput == Init /\ [][NextOutput]_vars

-----------------------------------------------------------------------------
(* The arming session: claims C1 to C10 *)

ArmCommand == "SOUR:DCON:ARM"

ArmRejectedSignal == Signal("arming_signal", "False", "Arming already in progress.")

ArmedSignal == Signal("arming_signal", "True", "Device successfully armed.")

TimeoutSignal == Signal("arming_signal", "False", "Arming process timed out.")

AbortNotNeededSignal ==
    Signal("abort_signal", "False", "Abort not needed: Device is not armed.")

Signals(seq) == {seq[i] : i \in 1..Len(seq)}

\* the place of a command in the order verification, presence, interlock, arm
Rank(cmd) ==
    CASE cmd = "SOUR:DCON:STAR?" -> 1
      [] cmd = "SOUR:DCON:STOP?" -> 2
      [] cmd = "SOUR:DCON:STEP?" -> 3
      [] cmd = "SOUR:DCON:DELTA?" -> 4
      [] cmd = "SOUR:DCON:DELay?" -> 5
      [] cmd = "SOUR:DELTA:NVPResent?" -> 6
      [] cmd = "OUTP:INT:TRIPped?" -> 7
      [] cmd = ArmCommand -> 8
      [] OTHER -> 9

\* C1: arm_device called while an arming session is in progress (under_arming
\* true) answers 'Arming already in progress.', makes no transport call at all,
\* and leaves the running session as it is: the flags, the timer, the elapsed
\* time and the timeout are unchanged, so the one session in progress stays the
\* only one.
C1_ArmRejectedWhileArming ==
    [][ (under_arming /\ op' = "arm_device") =>
            /\ io' = <<>>
            /\ emitted' = << ArmRejectedSignal >>
            /\ UNCHANGED <<under_arming, is_armed, arm_timer, elapsed_time, arming_timeout,
                           instrument, planVars>> ]_vars

C1_Witness ==
    /\ op = "arm_device"
    /\ under_arming
    /\ arm_timer
    /\ elapsed_time > 0
    /\ emitted = << ArmRejectedSignal >>

\* C2: in an arm call the arm command SOUR:DCON:ARM is on the transport only if
\* the call was not rejected, verify_params returned True, SOUR:DELTA:NVPResent?
\* answered "1" and OUTP:INT:TRIPped? answered "1"; and when verify_params returns
\* False the call fails, the arm command is not sent, no timer is started and
\* under_arming stays false.
C2_ArmOnlyWhenPreconditionsHold ==
    [][ op' = "arm_device" =>
            /\ ArmCommand \in Cmds(io') =>
                   /\ ~under_arming
                   /\ chk' = << True, <<"1">>, <<"1">> >>
            /\ (~under_arming /\ chk'[1] = False) =>
                   /\ ret' = False
                   /\ ArmCommand \notin Cmds(io')
                   /\ ~under_arming'
                   /\ ~arm_timer'
                   /\ UNCHANGED <<elapsed_time, arming_timeout>> ]_vars

C2_Witness ==
    /\ op = "arm_device"
    /\ chk = << False >>
    /\ Len(io) = 5
    /\ ~under_arming
    /\ start # <<>>

\* C3: an accepted arm call makes its transport calls in the order parameter
\* queries, SOUR:DELTA:NVPResent?, OUTP:INT:TRIPped?, SOUR:DCON:ARM; the presence
\* query is sent only after the verification passed, the interlock query only
\* after the presence query answered "1", the arm command only after the
\* interlock query answered "1"; and a call that fails leaves the flags, the timer
\* and the elapsed time unchanged.
C3_PreconditionsInOrder ==
    [][ (~under_arming /\ op' = "arm_device") =>
            /\ \A i, j \in 1..Len(io') : i < j => Rank(io'[i].cmd) < Rank(io'[j].cmd)
            /\ \A i \in 1..Len(io') : Rank(io'[i].cmd) <= 8
            /\ "SOUR:DELTA:NVPResent?" \in Cmds(io') => chk'[1] = True
            /\ "OUTP:INT:TRIPped?" \in Cmds(io') => (Len(chk') >= 2 /\ chk'[2] = <<"1">>)
            /\ ArmCommand \in Cmds(io') => (Len(chk') = 3 /\ chk'[3] = <<"1">>)
            /\ ret' = False =>
                   UNCHANGED <<under_arming, is_armed, arm_timer, elapsed_time>> ]_vars

C3_Witness ==
    /\ op = "arm_device"
    /\ ret = False
    /\ Len(chk) = 2
    /\ chk[1] = True
    /\ chk[2] = <<"0">>
    /\ Len(io) = 6

\* C4: a poll tick happens only while the timer is active and the session is
\* arming, and makes no transport call but one SOUR:DCON:ARM? query.  While the
\* answer is "0" and the elapsed time stays below the timeout the session stays
\* arming, nothing is emitted and the timer stays active; at the tick whose answer
\* is "1" the session is armed (is_armed true, under_arming false), the armed
\* events are emitted and the timer is stopped.
C4_PollUntilArmed ==
    [][ op' = "_check_arming_progress" =>
            /\ arm_timer /\ under_arming
            /\ Len(io') <= 1 /\ Cmds(io') \subseteq {"SOUR:DCON:ARM?"}
            /\ instrument = "open" => Len(io') = 1
            /\ (ret' = False /\ elapsed_time + 1 < arming_timeout) =>
                   /\ under_arming' /\ arm_timer'
                   /\ is_armed' = is_armed
                   /\ emitted' = <<>>
            /\ ret' = True =>
                   /\ is_armed' /\ ~under_arming' /\ ~arm_timer'
                   /\ emitted' = << ArmedSignal, Signal("arm_status_signal", "True", "") >> ]_vars

C4_Witness ==
    /\ op = "_check_arming_progress"
    /\ ret = True
    /\ elapsed_time = 2
    /\ is_armed /\ ~under_arming /\ ~arm_timer

\* C5: a poll answer that is neither "0" nor "1" (check_arm_status returns None)
\* ends the session at that tick: the timer is stopped, under_arming is cleared
\* and a failure is emitted.
C5_UnexpectedAnswerFails ==
    [][ (op' = "_check_arming_progress" /\ ret' = None) =>
            /\ ~arm_timer'
            /\ ~under_arming'
            /\ emitted' # <<>> ]_vars

C7_FailedSessionIsUnarmed ==
    [][ (op' = "_check_arming_progress" /\ TimeoutSignal \in Signals(emitted')) =>
            /\ ~is_armed'
            /\ ~under_arming' ]_vars

\* C8 as claimed: an arm call whose preconditions all pass sends the arm command
\* and SOUR:DCON:CAB ON.
C8_ArmEnablesComplianceAbort ==
    [][ (op' = "arm_device" /\ ret' = True) =>
            /\ ArmCommand \in Cmds(io')
            /\ "SOUR:DCON:CAB" \in Cmds(io') ]_vars

\* C8 as amended: an arm call whose preconditions all pass writes the arm command
\* as its last transport call and only then starts the timer, so the write comes
\* before the session's first poll tick; it makes no SOUR:DCON:CAB call, and no
\* poll tick sends anything but its SOUR:DCON:ARM? query.
C8_ArmCommandBeforePolling ==
    [][ /\ (op' = "arm_device" /\ ret' = True) =>
            /\ io' # <<>>
            /\ io'[Len(io')].cmd = ArmCommand
            /\ "SOUR:DCON:CAB" \notin Cmds(io')
            /\ arm_timer' /\ under_arming' /\ elapsed_time' = 0
        /\ (op' = "arm_device" /\ arm_timer' /\ ~arm_timer) => ret' = True
        /\ op' = "_check_arming_progress" => Cmds(io') \subseteq {"SOUR:DCON:ARM?"} ]_vars

C8_Witness ==
    /\ op = "arm_device"
    /\ ret = True
    /\ arm_timer
    /\ io[Len(io)] = Call(ArmCommand, <<>>, TRUE)

\* C9: abort_process called with is_armed true on an open connection sends
\* SOUR:SWE:ABOR, stops the timer and leaves is_armed and under_arming false.
C9_AbortLeavesUnarmed ==
    [][ (is_armed /\ instrument = "open" /\ op' = "abort_process") =>
            /\ "SOUR:SWE:ABOR" \in Cmds(io')
            /\ ~arm_timer'
            /\ ~is_armed'
            /\ ~under_arming' ]_vars

\* C10: abort_process called with is_armed false makes no transport call, leaves
\* is_armed, under_arming, the timer and the elapsed time unchanged, emits 'Abort
\* not needed' and returns False.
C10_AbortNotNeeded ==
    [][ (~is_armed /\ op' = "abort_process") =>
            /\ io' = <<>>
            /\ emitted' = << AbortNotNeededSignal >>
            /\ ret' = False
            /\ UNCHANGED <<is_armed, under_arming, arm_timer, elapsed_time, arming_timeout,
                           instrument, planVars>> ]_vars

C10_Witness ==
    /\ op = "abort_process"
    /\ emitted = << AbortNotNeededSignal >>
    /\ ~is_armed
    /\ under_arming
    /\ arm_timer

-----------------------------------------------------------------------------
(* Start of the measurement: claim C11 *)

StartCommand == "INIT:IMM"

\* C11: initialize_differential_conductance writes INIT:IMM exactly when the
\* stored flag is_armed is true and the SOUR:DCON:ARM? query it makes on the open
\* connection answers "1", and then it is the call's last transport call, right
\* after that query; in every other case the call returns False and INIT:IMM is
\* not on the transport.  The call never starts or stops the poll timer and
\* changes no flag, elapsed time or plan.
C11_StartOnlyWhenArmed ==
    [][ op' = "initialize_differential_conductance" =>
            /\ StartCommand \in Cmds(io') <=>
                   (is_armed /\ instrument = "open" /\ chk' = << True >>)
            /\ StartCommand \in Cmds(io') =>
                   /\ Len(io') = 2
                   /\ io'[1] = Call("SOUR:DCON:ARM?", <<>>, TRUE)
                   /\ io'[2].cmd = StartCommand
            /\ ~(is_armed /\ chk' = << True >>) => ret' = False
            /\ ~is_armed => io' = <<>>
            /\ UNCHANGED <<arm_timer, under_arming, is_armed, elapsed_time, arming_timeout,
                           instrument, planVars>> ]_vars

C11_Witness ==
    /\ op = "initialize_differential_conductance"
    /\ is_armed
    /\ ret = True
    /\ io = << Call("SOUR:DCON:ARM?", <<>>, TRUE), Call(StartCommand, <<>>, TRUE) >>
    /\ ~arm_timer

-----------------------------------------------------------------------------
(* Configuration: claims C12 to C17 *)

\* the call that ran last is a configure call; its arguments, in the order of the
\* signature
Configured == op = "set_diff_cond_params"

ArgStart == args[1]

ArgStop == args[2]

ArgStep == args[3]

ArgDelay == args[4]

ArgDelta == args[5]

\* the range rules of the call's documentation, in nanoamperes and milliseconds
StartOutOfRange == ArgStart < 0 - 105000000 \/ ArgStart > 105000000

StopOutOfRange == ArgStop < 0 - 105000000 \/ ArgStop > 105000000

StepOutOfRange == ArgStep < 1 \/ ArgStep > 105000000

DelayOutOfRange == ArgDelay < 1 \/ ArgDelay > 9999999

DeltaOutOfRange == ArgDelta < 10000 \/ ArgDelta > 105000000

StopNotAboveStart == ArgStop <= ArgStart

AnyRuleViolated ==
    \/ StartOutOfRange \/ StopOutOfRange \/ StepOutOfRange
    \/ DelayOutOfRange \/ DeltaOutOfRange \/ StopNotAboveStart

\* the span holds at least 65530 steps, so that more than 65530 points are needed
OverCapacity ==
    /\ ~AnyRuleViolated
    /\ (ArgStop - ArgStart) \div ArgStep >= 65530

\* the span holds less than 65529 steps, or exactly 65529
InCapacity ==
    /\ ~AnyRuleViolated
    /\ \/ (ArgStop - ArgStart) \div ArgStep < 65529
       \/ /\ (ArgStop - ArgStart) \div ArgStep = 65529
          /\ (ArgStop - ArgStart) % ArgStep = 0

ConfigureRejected == ret[1] = None

\* C12: a configure call whose arguments break a validation rule (a field out of
\* range, or stop <= start) or need more than 65530 points returns no points, and
\* a configure call that returns no points made no transport call at all: no
\* TRAC:POIN write or read-back and none of the five SOUR:DCON writes.
C12_RejectedConfigureMakesNoContact ==
    Configured =>
        /\ (AnyRuleViolated \/ OverCapacity) => ConfigureRejected
        /\ ConfigureRejected => io = <<>>

C12_Witness ==
    /\ Configured
    /\ instrument = "open"
    /\ OverCapacity
    /\ ConfigureRejected
    /\ io = <<>>

\* C13: a rejected configure call reports one rule, the first one violated in
\* the order start range, stop range, step range, delay range, delta range,
\* stop > start; so a call with stop <= start is always rejected with a
\* validation error, whatever its other fields.
C13_FirstViolatedRuleReported ==
    Configured =>
        /\ StartOutOfRange => ret = Rejected("Start value")
        /\ (~StartOutOfRange /\ StopOutOfRange) => ret = Rejected("Stop value")
        /\ (~StartOutOfRange /\ ~StopOutOfRange /\ StepOutOfRange) =>
               ret = Rejected("Step size")
        /\ (~StartOutOfRange /\ ~StopOutOfRange /\ ~StepOutOfRange /\ DelayOutOfRange) =>
               ret = Rejected("Delay value")
        /\ (~StartOutOfRange /\ ~StopOutOfRange /\ ~StepOutOfRange /\ ~DelayOutOfRange
               /\ DeltaOutOfRange) =>
               ret = Rejected("Delta value")
        /\ (~StartOutOfRange /\ ~StopOutOfRange /\ ~StepOutOfRange /\ ~DelayOutOfRange
               /\ ~DeltaOutOfRange /\ StopNotAboveStart) =>
               ret = Rejected("Stop value must be greater than start value")
        /\ StopNotAboveStart =>
               /\ ConfigureRejected
               /\ emitted = << Signal("error_signal", "Validation Error", ret[2][1]) >>
               /\ ret[2][1] # "Calculated buffer size exceeds maximum limit"

C13_Witness ==
    /\ Configured
    /\ StopNotAboveStart
    /\ DeltaOutOfRange
    /\ ret = Rejected("Delta value")

\* the steps of the stored sweep: Steps is ceil(round(|stop - start| / step, 6))
\* exactly when the span is less than half a millionth of a step above Steps
\* steps, and at least half a millionth of a step above Steps - 1 steps
IsCeilRound6(n, span, width) ==
    /\ n >= 0
    /\ span - n * width <= (width - 1) \div 2000000
    /\ n >= 1 => span - (n - 1) * width > (width - 1) \div 2000000

\* C14: whenever a sweep plan is stored its derived fields agree with it:
\* total_points is ceil(round(|stop - start| / step, 6)) + 1 of the stored
\* start, stop and step, lies in 1..65530, and estimated_time is total_points
\* times the stored delay.
C14_StoredPlanConsistent ==
    start # <<>> =>
        /\ total_points # <<>>
        /\ total_points[1] >= 1
        /\ total_points[1] <= MaxBufferPoints
        /\ IsCeilRound6(total_points[1] - 1, Abs(stop[1] - start[1]), step[1])
        /\ estimated_time = << total_points[1] * delay[1] >>

\* C15: a configure call that succeeds stores and returns total_points =
\* ceil(round((stop - start) / step, 6)) + 1 of its arguments, which is at least
\* 1, and estimated_time = total_points * delay: the returned texts read back as
\* these two numbers, the time with three decimals.
C15_PointsAndTimeReturned ==
    (Configured /\ ~ConfigureRejected) =>
        /\ ArgStop > ArgStart /\ ArgStep > 0
        /\ total_points # <<>>
        /\ total_points[1] >= 1
        /\ IsCeilRound6(total_points[1] - 1, ArgStop - ArgStart, ArgStep)
        /\ estimated_time = << total_points[1] * ArgDelay >>
        /\ AllDigits(ret[1]) /\ DigitsVal(ret[1]) = total_points[1]
        /\ Len(ret[2]) >= 5 /\ ret[2][Len(ret[2]) - 3] = "."
        /\ FloatEquals(float(ret[2]), estimated_time, 3)

\* the example of the specification: 0 A to 0.01 A in steps of 0.001 A with a
\* delay of 0.002 s gives 11 points and 0.022 s
C15_Witness ==
    /\ Configured
    /\ args = << 0, 10000000, 1000000, 2, 10000 >>
    /\ ret = << << "1", "1" >>, << "0", ".", "0", "2", "2" >> >>
    /\ total_points = << 11 >>
    /\ estimated_time = << 22 >>

ParamCommands ==
    { "SOUR:DCON:STAR", "SOUR:DCON:STOP", "SOUR:DCON:STEP", "SOUR:DCON:DELTA",
      "SOUR:DCON:DELay" }

\* C16: a configure call in which the write of one of the five sweep parameters
\* failed does not report success.
C16_FailedWriteIsReported ==
    (Configured /\ \E i \in 1..Len(io) : io[i].cmd \in ParamCommands /\ ~io[i].ok) =>
        /\ ConfigureRejected
        /\ Signal("params_set_signal", "", "") \notin Signals(emitted)

\* C17: a configure call on an open connection whose arguments pass validation
\* and fit the buffer makes seven transport calls in this order: TRAC:POIN with
\* the computed points, TRAC:POIN?, then the five parameter writes with the
\* call's arguments; and whether the read-back gave the points written, another
\* size, no integer or nothing, the call succeeds: the plan is stored and the
\* points and the time are returned.
C17_BufferSizedBeforeParameters ==
    (Configured /\ instrument = "open" /\ InCapacity) =>
        /\ Len(io) = 7
        /\ io[1].cmd = "TRAC:POIN" /\ io[1].arg = total_points
        /\ io[2].cmd = "TRAC:POIN?"
        /\ io[3].cmd = "SOUR:DCON:STAR" /\ io[3].arg = << ArgStart >>
        /\ io[4].cmd = "SOUR:DCON:STOP" /\ io[4].arg = << ArgStop >>
        /\ io[5].cmd = "SOUR:DCON:STEP" /\ io[5].arg = << ArgStep >>
        /\ io[6].cmd = "SOUR:DCON:DELTA" /\ io[6].arg = << ArgDelta >>
        /\ io[7].cmd = "SOUR:DCON:DELay" /\ io[7].arg = << ArgDelay >>
        /\ chk \in { << True >>, << False >> }
        /\ ~ConfigureRejected
        /\ plan = << <<ArgStart>>, <<ArgStop>>, <<ArgStep>>, <<ArgDelta>>, <<ArgDelay>> >>
        /\ emitted = << Signal("params_set_signal", "", "") >>

\* the read-back answered a size that is not the one written
C17_Witness ==
    /\ Configured
    /\ instrument = "open"
    /\ InCapacity
    /\ chk = << False >>
    /\ io[2] = Call("TRAC:POIN?", <<>>, TRUE)
    /\ ~ConfigureRejected
    /\ start = << ArgStart >>

-----------------------------------------------------------------------------
(* Verification: claim C18 *)

\* what each answer of ParamReplies says, in nanoamperes (milliseconds for the
\* delay); no value for None and for text that is no number
AnswerValue(text) ==
    CASE text = <<"0", ".", "0", "0", "0", "0", "0", "0", "E", "+", "0", "0">> -> << 0 >>
      [] text = <<"1", ".", "0", "E", "-", "3">> -> << 1000000 >>
      [] text = <<"1", ".", "0", "E", "-", "0", "2">> -> << 10000000 >>
      [] text = <<"+", "2", "E", "-", "2">> -> << 20000000 >>
      [] text = <<"1", ".", "0", "0", "0", "0", "0", "0", "E", "-", "0", "3">> -> << 1000000 >>
      [] text = <<"0", ".", "0", "0", "1">> -> << 1000000 >>
      [] text = <<"2", "e", "-", "3">> -> << 2000000 >>
      [] text = <<"1", "E", "-", "5">> -> << 10000 >>
      [] text = <<"1", ".", "0", "E", "-", "6">> -> << 1000 >>
      [] OTHER -> <<>>

\* the delay is answered in seconds
DelayAnswerValue(text) ==
    CASE text = <<"2", ".", "0", "E", "-", "3">> -> << 2 >>
      [] text = <<"0", ".", "0", "0", "5">> -> << 5 >>
      [] OTHER -> <<>>

\* C18: verify_params returns True exactly when all five parameter queries were
\* answered with a number and each number equals the stored value of its
\* parameter; it returns False when a value differs, when a query fails or is
\* answered with nothing or with text that is no number, and when no plan is
\* stored.  A call that returns True has made the five queries, in the order
\* start, stop, step, delta, delay.
C18_VerifyIffAllEqual ==
    op = "verify_params" =>
        /\ ret \in { True, False }
        /\ ret = True <=>
               /\ Len(chk) = 5
               /\ \A k \in 1..4 : AnswerValue(chk[k]) # <<>> /\ AnswerValue(chk[k]) = plan[k]
               /\ DelayAnswerValue(chk[5]) # <<>> /\ DelayAnswerValue(chk[5]) = plan[5]
        /\ ret = True => [k \in 1..5 |-> io[k].cmd] = ParamQueries
        /\ start = <<>> => ret = False
        /\ instrument = "None" => (ret = False /\ io = <<>>)

\* the step was answered as 0.001, the stored step is 1e-3 A
C18_Witness ==
    /\ op = "verify_params"
    /\ ret = True
    /\ chk[3] = <<"0", ".", "0", "0", "1">>
    /\ step = << 1000000 >>

-----------------------------------------------------------------------------
(* The connection handle: claims C19 and C20 *)

\* C19: a configure call made while the connection handle is None reaches no
\* transport call, and its sends and queries are reported to the caller as
\* failed: the call does not return points and does not announce success.
C19_NotConnectedIsReported ==
    (Configured /\ instrument = "None") =>
        /\ io = <<>>
        /\ ConfigureRejected
        /\ Signal("params_set_signal", "", "") \notin Signals(emitted)

\* C20: disconnect_device leaves the handle None and every cached device status
\* (output state, inner shield, output low) unknown.
C20_DisconnectResetsCaches ==
    op = "disconnect_device" =>
        /\ instrument = "None"
        /\ output_state = None
        /\ inner_shield_status = None
        /\ output_low_status = None

-----------------------------------------------------------------------------
(* One connection per session: claim C21 *)

\* C21: the session holds at most one live transport connection: a connect
\* that opens a new resource while the session still holds an open one closes
\* the one it held, so that two are never open together.
C21_ReconnectReleasesHandle ==
    [][(/\ instrument = "open"
        /\ op' = "connect_device"
        /\ io'[1] = Call("open_resource", <<>>, TRUE))
       => "close" \in Cmds(io')]_vars

-----------------------------------------------------------------------------
(* Raw queries and the error queue: SYST:ERR? *)

\* the longest line drawn for a raw query
MaxLineLen == 3

LineAlphabet == {"-", "1", ",", "e", " "}

\* what the transport may hand to query_6220: every line over LineAlphabet of
\* up to MaxLineLen characters, two lines that start with a plus sign, or no
\* line at all
QueryLines ==
    UNION { [1..n -> LineAlphabet] : n \in 0..MaxLineLen }
    \cup { << "+", "1", ",", "e" >>, << "+", "1" >> }

\* query_6220(command) called on its own
Keithley6220_query_6220 ==
    /\ op' = "query_6220"
    /\ \E r \in QueryLines \cup { VisaIOError } :
          \E o \in query_6220(instrument, "*IDN?", { r }) :
             /\ args' = << "*IDN?" >>
             /\ chk' = IF instrument = "open" THEN << r >> ELSE <<>>
             /\ io' = o.io
             /\ ret' = o.resp
    /\ emitted' = <<>>
    /\ UNCHANGED <<instrument, planVars, armVars, cacheVars, dataVars, outsideVars>>

\* answers to SYST:ERR?: 0,"n"  0,n  +0,n  -1,"e"  -1,e  2,"e"  " 2 , e " (blanks
\* around the code and the message), 2 (no comma), e,e (no code), an empty line
\* and no answer
ErrorReplies ==
    { << "0", ",", "\"", "n", "\"" >>, << "0", ",", "n" >>, << "+", "0", ",", "n" >>,
      << "-", "1", ",", "\"", "e", "\"" >>, << "-", "1", ",", "e" >>,
      << "2", ",", "\"", "e", "\"" >>, << " ", "2", " ", ",", " ", "e", " " >>,
      << "2" >>, << "e", ",", "e" >>, <<>>, VisaIOError }

\* str.strip('"')
RECURSIVE StripQuotes(_)
StripQuotes(s) ==
    IF s # <<>> /\ s[1] = "\"" THEN StripQuotes(Tail(s))
    ELSE IF s # <<>> /\ s[Len(s)] = "\"" THEN StripQuotes(SubSeq(s, 1, Len(s) - 1))
    ELSE s

\* what check_error_message returns when anything raises: f"Exception: {e}"
Exception == << "Exception" >>

\* check_error_message, from what query_6220 returned to the return value: the
\* split of None and the unpacking of a line without a comma raise, and so does
\* int() of a code that is no integer
check_error_message_result(response) ==
    IF response = None THEN Exception
    ELSE LET i == IndexOf(response, {","})
             error_code == int(strip(SubSeq(response, 1, i - 1)))
             error_message == StripQuotes(strip(SubSeq(response, i + 1, Len(response))))
         IN  IF i = 0 \/ ~error_code.ok THEN Exception
             ELSE IF error_code.v = 0 THEN None
             ELSE << << error_code.v >>, error_message >>

\* check_error_message(): the possible (return value, transport log, line) triples
check_error_message(inst) ==
    IF inst = "None" THEN { [ret |-> Exception, io |-> <<>>, line |-> <<>>] }
    ELSE { [ret  |-> check_error_message_result(query_6220_response(r)),
            io   |-> << Call("SYST:ERR?", <<>>, r # VisaIOError) >>,
            line |-> << r >>] : r \in ErrorReplies }

\* check_err_message: a returned pair is emitted as "Error <code>: <message>",
\* None as "No error.", anything else as it is
check_err_message ==
    /\ op' = "check_err_message"
    /\ args' = <<>>
    /\ \E o \in check_error_message(instrument) :
          /\ io' = o.io
          /\ chk' = o.line
          /\ ret' = o.ret
          /\ emitted' =
               << IF o.ret = None THEN Signal("error_signal", "No error.", "")
                  ELSE IF o.ret = Exception THEN Signal("error_signal", "Exception", "")
                  ELSE Signal("error_signal", "Error", o.ret) >>
    /\ UNCHANGED <<instrument, planVars, armVars, cacheVars, dataVars, outsideVars>>

\* the queries relayed to the 2182A
AuxCommands == { "*IDN?", ":FETCh?" }

\* answers to SYST:COMM:SER:ENT?: a reading, the same with blanks around it, an
\* empty line and no answer
AuxReplies ==
    { << "1", ".", "5" >>, << " ", "1", ".", "5", " " >>, <<>>, VisaIOError }

\* query_2182 without the read that clears the buffer
query_2182_no_drain(inst, command) ==
    IF inst = "None" THEN { [ret |-> None, io |-> <<>>, line |-> <<>>] }
    ELSE { [ret |-> None, line |-> <<>>,
            io |-> << Call("SYST:COMM:SER:SEND", << command >>, FALSE) >>] }
         \cup
         { [ret  |-> IF r = VisaIOError THEN None ELSE strip(r),
            line |-> << r >>,
            io   |-> << Call("SYST:COMM:SER:SEND", << command >>, TRUE),
                        Call("SYST:COMM:SER:ENT?", <<>>, r # VisaIOError) >>]
           : r \in AuxReplies }

\* query_2182(command): the possible (return value, transport log, line read)
\* triples.  The command is written inside SYST:COMM:SER:SEND "<command>", the
\* answer is queried with SYST:COMM:SER:ENT? and one more line is read; the first
\* call that raises ends the method with None.
query_2182(inst, command) ==
    IF inst = "None" THEN { [ret |-> None, io |-> <<>>, line |-> <<>>] }
    ELSE { [ret |-> None, line |-> <<>>,
            io |-> << Call("SYST:COMM:SER:SEND", << command >>, FALSE) >>] }
         \cup
         { [ret |-> None, line |-> << VisaIOError >>,
            io |-> << Call("SYST:COMM:SER:SEND", << command >>, TRUE),
                      Call("SYST:COMM:SER:ENT?", <<>>, FALSE) >>] }
         \cup
         { [ret  |-> IF drained THEN strip(r) ELSE None,
            line |-> << r >>,
            io   |-> << Call("SYST:COMM:SER:SEND", << command >>, TRUE),
                        Call("SYST:COMM:SER:ENT?", <<>>, TRUE),
                        Call("read", <<>>, drained) >>]
           : r \in AuxReplies \ { VisaIOError }, drained \in BOOLEAN }

\* query_2182(command) called on its own
Keithley6220_query_2182 ==
    /\ op' = "query_2182"
    /\ \E command \in AuxCommands :
          \E o \in query_2182(instrument, command) :
             /\ args' = << command >>
             /\ chk' = o.line
             /\ io' = o.io
             /\ ret' = o.ret
    /\ emitted' = <<>>
    /\ UNCHANGED <<instrument, planVars, armVars, cacheVars, dataVars, outsideVars>>

NextQuery ==
    \/ connect_device
    \/ disconnect_device
    \/ Keithley6220_query_6220
    \/ Keithley6220_query_2182
    \/ check_err_message

SpecQuery == Init /\ [][NextQuery]_vars

-----------------------------------------------------------------------------
(* What a raw query returns: claim C22 *)

\* the places of a line that hold no blank
NonBlank(line) == { i \in 1..Len(line) : line[i] \notin Whitespace }

\* a line without its leading and trailing blanks
Trimmed(line) ==
    IF NonBlank(line) = {} THEN <<>>
    ELSE LET lo == CHOOSE i \in NonBlank(line) : \A j \in NonBlank(line) : i <= j
             hi == CHOOSE i \in NonBlank(line) : \A j \in NonBlank(line) : j <= i
         IN  [k \in 1..(hi - lo + 1) |-> line[lo + k - 1]]

\* a line that starts with a sign and holds a comma
SignedWithComma(line) ==
    /\ line # <<>>
    /\ line[1] \in {"+", "-"}
    /\ \E i \in 1..Len(line) : line[i] = ","

\* an error frame <signed-integer>,<text>: a sign, one or more digits, a comma
SignedIntegerFrame(line) ==
    \E k \in 3..Len(line) :
       /\ line[1] \in {"+", "-"}
       /\ line[k] = ","
       /\ \A i \in 2..(k - 1) : line[i] \in Digits

\* the line the last raw query received
QueryAnswered == op = "query_6220" /\ chk # <<>>

\* C22 as claimed: a raw query returns None when the transport raises, when the
\* line is empty and when it is an error frame <signed-integer>,<text>; every
\* other line is returned stripped and otherwise unchanged.
C22_OnlyErrorFramesAreDropped ==
    QueryAnswered =>
        IF \/ chk[1] = VisaIOError
           \/ Trimmed(chk[1]) = <<>>
           \/ SignedIntegerFrame(Trimmed(chk[1]))
        THEN ret = None
        ELSE ret = Trimmed(chk[1])

\* C22 as amended: a raw query returns None when there is no handle or the
\* transport raises, when the line is empty, and when the stripped line starts
\* with a sign and holds a comma, whatever stands before the comma; every other
\* line is returned stripped and otherwise unchanged.
C22_SignedLinesWithCommaAreDropped ==
    op = "query_6220" =>
        IF chk = <<>> THEN instrument = "None" /\ ret = None /\ io = <<>>
        ELSE IF \/ chk[1] = VisaIOError
                \/ Trimmed(chk[1]) = <<>>
                \/ SignedWithComma(Trimmed(chk[1]))
        THEN ret = None
        ELSE ret = Trimmed(chk[1])

\* the line -e, was received: a sign, no integer, a comma.  None is returned
C22_Witness ==
    /\ QueryAnswered
    /\ chk[1] = << "-", "e", "," >>
    /\ ret = None

-----------------------------------------------------------------------------
(* The error queue: claim C23 *)

\* the code of a line <code>,<message>: the integer before its first comma
FrameCode(line) == int(Trimmed(SubSeq(line, 1, IndexOf(line, {","}) - 1)))

\* the last handler read the error queue and was answered <code>,<message>
ErrorFrameAnswered ==
    /\ op = "check_err_message"
    /\ chk # <<>>
    /\ chk[1] # VisaIOError
    /\ IndexOf(chk[1], {","}) # 0
    /\ FrameCode(chk[1]).ok

\* C23: an answer <code>,<message> to SYST:ERR? with a code other than 0,
\* negative codes included, comes back as the pair (code, message) and not as
\* an exception; with code 0 no error is reported.
C23_ErrorCodesAreStructured ==
    ErrorFrameAnswered =>
        IF FrameCode(chk[1]).v = 0
        THEN ret = None /\ emitted = << Signal("error_signal", "No error.", "") >>
        ELSE /\ ret \notin { None, Exception }
             /\ ret[1] = << FrameCode(chk[1]).v >>

-----------------------------------------------------------------------------
(* Retrieval: TRAC:DATA? and the parsing of its payload *)

\* the payload of two readings: 1.0000E-03ADC,2.0000E-03VDC#3.0000E-03ADC,4.0000E-03VDC
TwoReadings ==
    << "1", ".", "0", "0", "0", "0", "E", "-", "0", "3", "A", "D", "C", ",", "2", ".", "0",
       "0", "0", "0", "E", "-", "0", "3", "V", "D", "C", "#", "3", ".", "0", "0", "0", "0",
       "E", "-", "0", "3", "A", "D", "C", ",", "4", ".", "0", "0", "0", "0", "E", "-", "0",
       "3", "V", "D", "C" >>

\* three chunks, the second without a voltage: 1.0E-3ADC,2.0E-3VDC#5.0E-3ADC#3.0E-3ADC,4.0E-3VDC
SkippedReading ==
    << "1", ".", "0", "E", "-", "3", "A", "D", "C", ",", "2", ".", "0", "E", "-", "3", "V",
       "D", "C", "#", "5", ".", "0", "E", "-", "3", "A", "D", "C", "#", "3", ".", "0", "E",
       "-", "3", "A", "D", "C", ",", "4", ".", "0", "E", "-", "3", "V", "D", "C" >>

\* two chunks, a current alone and a voltage alone: 1.0E-3ADC#4.0E-3VDC
NoReading ==
    << "1", ".", "0", "E", "-", "3", "A", "D", "C", "#", "4", ".", "0", "E", "-", "3", "V",
       "D", "C" >>

\* one chunk with signs and two currents, then a blank that is stripped and
\* leaves an empty chunk: "-1.5E+0ADC,7.0E-1ADC,+2.5E-1VDC# "
SignedReading ==
    << "-", "1", ".", "5", "E", "+", "0", "A", "D", "C", ",", "7", ".", "0", "E", "-", "1",
       "A", "D", "C", ",", "+", "2", ".", "5", "E", "-", "1", "V", "D", "C", "#", " " >>

\* numbers without a decimal point, which the pattern does not match: 1E-3ADC,2E-3VDC
NoPointReading ==
    << "1", "E", "-", "3", "A", "D", "C", ",", "2", "E", "-", "3", "V", "D", "C" >>

\* answers to TRAC:DATA?: the payloads above, an empty line and no answer
DataReplies ==
    { TwoReadings, SkippedReading, NoReading, SignedReading, NoPointReading, <<>>,
      VisaIOError }

\* get_all_differential_conductance_data(): the possible (return value,
\* transport log) pairs.  With self.instrument None setting the timeout raises,
\* which is caught: None, and nothing reaches the transport.
get_all_differential_conductance_data(inst) ==
    IF inst = "None" THEN { [resp |-> None, io |-> <<>>] }
    ELSE { [resp |-> IF r = VisaIOError THEN None ELSE strip(r),
            io   |-> << Call("TRAC:DATA?", <<>>, r # VisaIOError) >>] : r \in DataReplies }

\* raw_data.split("#") taken for one chunk
Split_no_delimiter(s) == << s >>

\* raw_data.split("#")
RECURSIVE Split(_)
Split(s) ==
    LET i == IndexOf(s, {"#"})
    IN  IF i = 0 THEN << s >>
        ELSE << SubSeq(s, 1, i - 1) >> \o Split(SubSeq(s, i + 1, Len(s)))

\* the character at place i of s, "" outside of s
At(s, i) == IF i \in 1..Len(s) THEN s[i] ELSE ""

\* the last place of the run of digits of s that starts at place i, i - 1 if
\* there is no digit at i
RECURSIVE DigitRunEnd(_, _)
DigitRunEnd(s, i) == IF At(s, i) \in Digits THEN DigitRunEnd(s, i + 1) ELSE i - 1

VDC == << "V", "D", "C" >>

ADC == << "A", "D", "C" >>

\* the pattern ([-+]?\d+\.\d+E[-+]?\d+)<unit> tried at place i of the entry: the
\* last place of the group, 0 if the pattern does not match there
MatchEnd(entry, i, unit) ==
    LET a == IF At(entry, i) \in {"-", "+"} THEN i + 1 ELSE i
        b == DigitRunEnd(entry, a)
        c == DigitRunEnd(entry, b + 2)
        d == IF At(entry, c + 2) \in {"-", "+"} THEN c + 3 ELSE c + 2
        e == DigitRunEnd(entry, d)
    IN  IF /\ b >= a
           /\ At(entry, b + 1) = "."
           /\ c >= b + 2
           /\ At(entry, c + 1) = "E"
           /\ e >= d
           /\ e + 3 <= Len(entry)
           /\ SubSeq(entry, e + 1, e + 3) = unit
        THEN e
        ELSE 0

\* re.findall(pattern, entry)[0]: the group of the leftmost match, <<>> when
\* findall returns an empty list
findall_first(entry, unit) ==
    LET at == { i \in 1..Len(entry) : MatchEnd(entry, i, unit) # 0 }
    IN  IF at = {} THEN <<>>
        ELSE LET i == CHOOSE i \in at : \A j \in at : i <= j
             IN  SubSeq(entry, i, MatchEnd(entry, i, unit))

\* the loop of parse_iv_data with both lists appended to on their own
RECURSIVE parse_entries_unpaired(_)
parse_entries_unpaired(readings) ==
    IF readings = <<>> THEN << <<>>, <<>> >>
    ELSE LET voltage_match == findall_first(readings[1], VDC)
             current_match == findall_first(readings[1], ADC)
             rest == parse_entries_unpaired(Tail(readings))
         IN  << (IF current_match # <<>> THEN << float(current_match) >> ELSE <<>>)
                \o rest[1],
                (IF voltage_match # <<>> THEN << float(voltage_match) >> ELSE <<>>)
                \o rest[2] >>

\* the loop of parse_iv_data over the entries: (current_values, voltage_values)
RECURSIVE parse_entries(_)
parse_entries(readings) ==
    IF readings = <<>> THEN << <<>>, <<>> >>
    ELSE LET voltage_match == findall_first(readings[1], VDC)
             current_match == findall_first(readings[1], ADC)
             rest == parse_entries(Tail(readings))
         IN  IF voltage_match # <<>> /\ current_match # <<>>
             THEN << << float(current_match) >> \o rest[1],
                     << float(voltage_match) >> \o rest[2] >>
             ELSE rest

\* parse_iv_data(raw_data): (current_values, voltage_values)
parse_iv_data(raw_data) == parse_entries(Split(raw_data))

\* "if not raw_data" with an empty line taken for data
NoData_none_only(raw_data) == raw_data = None

\* "if not raw_data": None and the empty line
NoData(raw_data) == raw_data = None \/ raw_data = <<>>

\* retrieve_iv_data: nothing is stored when no data came back; otherwise both
\* lists are replaced by the parsed ones, and the data is announced unless one
\* of them is empty
retrieve_iv_data ==
    /\ op' = "retrieve_iv_data"
    /\ args' = <<>>
    /\ ret' = None
    /\ \E o \in get_all_differential_conductance_data(instrument) :
          /\ io' = o.io
          /\ chk' = << o.resp >>
          /\ IF NoData(o.resp)
             THEN /\ emitted' = << Signal("error_signal",
                                          "Failed to retrieve measurement data.", "") >>
                  /\ UNCHANGED dataVars
             ELSE /\ current_values' = parse_iv_data(o.resp)[1]
                  /\ voltage_values' = parse_iv_data(o.resp)[2]
                  /\ emitted' =
                       IF Len(current_values') = 0 \/ Len(voltage_values') = 0
                       THEN << Signal("error_signal",
                                      "Failed to parse measurement data.", "") >>
                       ELSE << Signal("iv_data_ready_signal", "", "") >>
    /\ UNCHANGED <<instrument, planVars, armVars, cacheVars, outsideVars>>

NextData ==
    \/ connect_device
    \/ disconnect_device
    \/ check_arm
    \/ initialize_differential_conductance
    \/ abort_process
    \/ retrieve_iv_data

SpecData == Init /\ [][NextData]_vars

-----------------------------------------------------------------------------
(* The measurement buffer: claims C24, C25 and C26 *)

\* C24: the stored currents and the stored voltages have the same length in
\* every reachable state, whatever retrievals succeeded or failed before.
C24_SequencesEqualLength == Len(current_values) = Len(voltage_values)

\* the payload with a chunk that has a current and no voltage was stored: two
\* readings on either side
C24_Witness ==
    /\ op = "retrieve_iv_data"
    /\ chk[1] = SkippedReading
    /\ Len(current_values) = 2
    /\ Len(voltage_values) = 2

\* a number with a decimal point and an exponent: [sign] digits . digits E
\* [sign] digits
IsReading(text) ==
    \E p \in 1..Len(text), q \in 1..Len(text) :
       LET first == IF text[1] \in {"-", "+"} THEN 2 ELSE 1
           expo  == IF At(text, q + 1) \in {"-", "+"} THEN q + 2 ELSE q + 1
       IN  /\ first < p
           /\ p + 1 < q
           /\ expo <= Len(text)
           /\ text[p] = "."
           /\ text[q] = "E"
           /\ \A i \in (first..(p - 1)) \cup ((p + 1)..(q - 1)) \cup (expo..Len(text)) :
                 text[i] \in Digits

\* the places (i, j) of a chunk between which a reading stands right before the unit
TokensOf(chunk, unit) ==
    { t \in (1..Len(chunk)) \X (1..Len(chunk)) :
         /\ t[1] <= t[2]
         /\ t[2] + 3 <= Len(chunk)
         /\ IsReading(SubSeq(chunk, t[1], t[2]))
         /\ SubSeq(chunk, t[2] + 1, t[2] + 3) = unit }

\* the value of the first token of a chunk that has one
FirstTokenValue(chunk, unit) ==
    LET t == CHOOSE t \in TokensOf(chunk, unit) :
                 \A u \in TokensOf(chunk, unit) : t[1] <= u[1]
    IN  float(SubSeq(chunk, t[1], t[2]))

\* the places of a payload that bound its chunks: before it, its delimiters, after it
Bounds(payload) == {0, Len(payload) + 1} \cup { i \in 1..Len(payload) : payload[i] = "#" }

\* the chunk of a payload that starts after the bound a
ChunkAfter(payload, a) ==
    LET b == CHOOSE b \in Bounds(payload) :
                 b > a /\ \A c \in Bounds(payload) : c > a => b <= c
    IN  SubSeq(payload, a + 1, b - 1)

\* the bounds of a payload after which a chunk with both tokens starts
PairedChunks(payload) ==
    { a \in Bounds(payload) \ {Len(payload) + 1} :
         /\ TokensOf(ChunkAfter(payload, a), ADC) # {}
         /\ TokensOf(ChunkAfter(payload, a), VDC) # {} }

\* the place of the chunk after a among the chunks with both tokens
PairIndex(payload, a) == Cardinality({ b \in PairedChunks(payload) : b <= a })

\* the last handler retrieved a payload
PayloadRetrieved == op = "retrieve_iv_data" /\ ~NoData(chk[1])

\* C25: a retrieved payload, split on "#", stores one (current, voltage) pair
\* for each chunk with both an ADC and a VDC token, in the order of the payload,
\* and nothing for a chunk that lacks either; with no such chunk the retrieval
\* reports an error and does not announce data.
C25_OnePairPerPairedChunk ==
    /\ PayloadRetrieved =>
          /\ Len(current_values) = Cardinality(PairedChunks(chk[1]))
          /\ Len(voltage_values) = Cardinality(PairedChunks(chk[1]))
          /\ \A a \in PairedChunks(chk[1]) :
                /\ current_values[PairIndex(chk[1], a)]
                      = FirstTokenValue(ChunkAfter(chk[1], a), ADC)
                /\ voltage_values[PairIndex(chk[1], a)]
                      = FirstTokenValue(ChunkAfter(chk[1], a), VDC)
          /\ PairedChunks(chk[1]) # {} =>
                emitted = << Signal("iv_data_ready_signal", "", "") >>
    /\ (op = "retrieve_iv_data" /\ chk[1] # None /\ PairedChunks(chk[1]) = {}) =>
          /\ Len(emitted) = 1
          /\ emitted[1].sig = "error_signal"

\* the payload of two readings was retrieved: 1e-3 A with 2e-3 V, then 3e-3 A
\* with 4e-3 V
C25_Witness ==
    /\ PayloadRetrieved
    /\ chk[1] = TwoReadings
    /\ current_values = << Normal(1, -3), Normal(3, -3) >>
    /\ voltage_values = << Normal(2, -3), Normal(4, -3) >>

\* the transport call of a retrieval that was answered
Answered == << Call("TRAC:DATA?", <<>>, TRUE) >>

DataReady == Signal("iv_data_ready_signal", "", "")

\* C26 as claimed, for a retrieval that follows an abort at once, so that no
\* sweep was started since: it stores nothing and does not announce data.
C26_NoDataWithoutSweep ==
    [][(op = "abort_process" /\ op' = "retrieve_iv_data")
       => (UNCHANGED dataVars /\ DataReady \notin Signals(emitted'))]_vars

\* C26 as amended: the buffer starts empty and changes only in a retrieval
\* whose TRAC:DATA? query was answered with a payload; a retrieval whose query
\* fails leaves the buffer as it was and does not announce data; data is
\* announced only by a retrieval that stored readings.
C26_OnlyAnsweredRetrievalStores ==
    /\ current_values = <<>> /\ voltage_values = <<>>
    /\ [][/\ dataVars' # dataVars =>
              /\ op' = "retrieve_iv_data"
              /\ io' = Answered
              /\ chk'[1] \notin { None, <<>> }
          /\ (op' = "retrieve_iv_data" /\ io' # Answered) =>
              (UNCHANGED dataVars /\ DataReady \notin Signals(emitted'))
          /\ DataReady \in Signals(emitted') =>
              (op' = "retrieve_iv_data" /\ io' = Answered /\ current_values' # <<>>)]_vars

\* a retrieval whose query raised, with readings of an earlier retrieval stored
C26_Witness ==
    /\ op = "retrieve_iv_data"
    /\ io = << Call("TRAC:DATA?", <<>>, FALSE) >>
    /\ current_values # <<>>

-----------------------------------------------------------------------------
(* The relay to the 2182A: claim C27 *)

\* the three transport calls of a relayed query, all of them accepted
RelayedCalls(command) ==
    << Call("SYST:COMM:SER:SEND", << command >>, TRUE),
       Call("SYST:COMM:SER:ENT?", <<>>, TRUE),
       Call("read", <<>>, TRUE) >>

\* C27: a relayed query writes SYST:COMM:SER:SEND "<command>", queries
\* SYST:COMM:SER:ENT? and reads one more line, in this order and once each, and
\* returns the answer to ENT?; a step that fails ends the call, which then
\* returns None.
C27_RelayedQueryInOrder ==
    op = "query_2182" =>
        /\ Len(io) <= 3
        /\ \A k \in 1..Len(io) :
              /\ io[k].cmd = RelayedCalls(args[1])[k].cmd
              /\ io[k].arg = RelayedCalls(args[1])[k].arg
              /\ k < Len(io) => io[k].ok
        /\ IF io = RelayedCalls(args[1])
           THEN ret = Trimmed(chk[1])
           ELSE ret = None /\ (instrument = "open" => Len(io) >= 1 /\ ~io[Len(io)].ok)

\* all three steps were taken and the reading, sent with blanks around it, is
\* returned
C27_Witness ==
    /\ op = "query_2182"
    /\ io = RelayedCalls(":FETCh?")
    /\ chk[1] = << " ", "1", ".", "5", " " >>
    /\ ret = << "1", ".", "5" >>

-----------------------------------------------------------------------------
(* Stopping the poll: claim C28 *)

\* the abort that ran last was accepted
AbortSucceeded ==
    /\ op = "abort_process"
    /\ emitted = << Signal("abort_signal", "True", "Process aborted successfully.") >>

\* the arm request that ran last started the poll
ArmingInitiated ==
    /\ op = "arm_device"
    /\ Signal("arming_signal", "True", "Arming process initiated.") \in Signals(emitted)

\* C28: stopping the poll takes effect at once: when stop_arming_monitor or an
\* accepted abort has returned the timer is inactive, a poll runs only while
\* the timer is active, and only an arm request that starts the poll makes an
\* inactive timer active.  So no poll follows a stop before the next arm.
C28_NoPollAfterStop ==
    [][/\ (op' = "stop_arming_monitor" \/ AbortSucceeded') => ~arm_timer'
       /\ op' = "_check_arming_progress" => arm_timer
       /\ (~arm_timer /\ arm_timer') => ArmingInitiated']_vars

\* an abort was accepted while the poll was still awaited: the timer is stopped
C28_Witness ==
    /\ AbortSucceeded
    /\ under_arming
    /\ ~arm_timer

-----------------------------------------------------------------------------
(* Changes allowed with the output off only: claim C29 *)

\* the commands that set the inner shield and the output low
GuardedCommands == { "OUTP:ISHield GUARd", "OUTP:LTEarth OFF", "OUTP:LTEarth ON" }

GuardedHandlers ==
    { "set_inner_shield_to_guard", "set_output_low_floating", "set_output_low_grounded" }

\* C29: OUTP:ISHield GUARd and OUTP:LTEarth ON/OFF are written only in a call
\* whose OUTP:STATe? query came first and returned "0"; in a call whose query
\* returned anything else, or nothing, none of them is written.
C29_SetOnlyWithOutputOff ==
    /\ (\E k \in 1..Len(io) : io[k].cmd \in GuardedCommands) =>
          /\ op \in GuardedHandlers
          /\ io[1] = Call("OUTP:STATe?", <<>>, TRUE)
          /\ chk[1] = << "0" >>
          /\ \A k \in 1..Len(io) : io[k].cmd \in GuardedCommands => k = 2
    /\ (op \in GuardedHandlers /\ chk[1] # << "0" >>) =>
          /\ \A k \in 1..Len(io) : io[k].cmd \notin GuardedCommands
          /\ ret \in { OUTPUT_ON, False }

\* the output state was answered "0" and the guard command was written next
C29_Witness ==
    /\ op = "set_inner_shield_to_guard"
    /\ chk[1] = << "0" >>
    /\ Len(io) = 3
    /\ io[2] = Call("OUTP:ISHield GUARd", <<>>, TRUE)
    /\ ret = True

-----------------------------------------------------------------------------
(* The flag and the timer: claim C30 *)

\* C30: whenever under_arming is true the poll timer is active.
C30_UnderArmingHasTimer == under_arming => arm_timer

-----------------------------------------------------------------------------
(* The end of an arming session: claim C31 *)

\* the handlers of Spec, with the slot of an active timer called again and again
SpecFair == Spec /\ WF_vars(check_arming_progress)

\* C31: with the timer firing as long as it is active, whatever the device
\* answers and whatever the user does in between, every state with under_arming
\* true is followed by a state with under_arming false.
C31_ArmingEnds == under_arming ~> ~under_arming

-----------------------------------------------------------------------------
(* Disconnecting while arming: claim C32 *)

\* C32: when disconnect_device has returned the timer is inactive, under_arming
\* and is_armed are false and no sweep plan is stored; and no poll runs while
\* there is no connection handle.
C32_DisconnectEndsArming ==
    /\ op = "disconnect_device" =>
          /\ ~arm_timer
          /\ ~under_arming
          /\ ~is_armed
          /\ start = <<>> /\ stop = <<>> /\ step = <<>> /\ delta = <<>> /\ delay = <<>>
          /\ total_points = <<>> /\ estimated_time = <<>>
    /\ op = "_check_arming_progress" => instrument = "open"

-----------------------------------------------------------------------------
(* An abort that did not reach the instrument: claim C33 *)

\* the abort command, accepted by the transport
AbortAccepted == << Call("SOUR:SWE:ABOR", <<>>, TRUE) >>

\* C33: abort_process emits 'Process aborted successfully.' and clears is_armed
\* only if the write of SOUR:SWE:ABOR was accepted; when the write fails, or
\* there is no connection handle, it reports the failure and leaves is_armed as
\* it was.
C33_AbortSuccessNeedsWrite ==
    [][(op' = "abort_process" /\ is_armed) =>
          IF io' = AbortAccepted
          THEN AbortSucceeded' /\ ~is_armed'
          ELSE /\ emitted' = << Signal("abort_signal", "False", "Failed to abort process.") >>
               /\ is_armed']_vars

-----------------------------------------------------------------------------
(* IVMainWindow: the arm action of the window *)

\* IVMainWindow.arm_device: the five boxes are read; unless float() raises on
\* one of them (then only 'Invalid input values!' is shown) the controller's
\* set_diff_cond_params is called and after it, whatever it emitted, the
\* controller's arm_device
IVMainWindow_arm_device ==
    /\ op' = "IVMainWindow.arm_device"
    /\ \/ /\ args' = <<>>
          /\ chk' = <<>>
          /\ io' = <<>>
          /\ ret' = None
          /\ emitted' = <<>>
          /\ UNCHANGED <<planVars, under_arming, elapsed_time, arming_timeout, arm_timer>>
       \/ \E in \in SweepInputs :
          LET configure == { c \in set_differential_conductance_params(
                                      instrument, in, plan, total_points, estimated_time) :
                                Faults(c.io) <= MaxFaults }
              accepted  == ParamsValid(in) /\ ~ExceedsCapacity(PointsOf(in))
              armed     == { o \in Keithley6220_arm_device(
                                      instrument,
                                      IF accepted
                                      THEN << <<in.start>>, <<in.stop>>, <<in.step>>,
                                              <<in.delta>>, <<in.delay>> >>
                                      ELSE plan) :
                                Faults(o.io) <= MaxFaults }
          IN
          \E c \in configure :
             /\ args' = << in.start, in.stop, in.step, in.delay, in.delta >>
             /\ chk' = << Bool(c.ok) >>
             /\ start' = c.plan[1]
             /\ stop' = c.plan[2]
             /\ step' = c.plan[3]
             /\ delta' = c.plan[4]
             /\ delay' = c.plan[5]
             /\ total_points' = c.tp
             /\ estimated_time' = c.et
             /\ LET configured ==
                      IF c.ok THEN << Signal("params_set_signal", "", "") >>
                      ELSE << Signal("error_signal", "Validation Error", c.ret[2][1]) >>
                IN
                IF ArmingInProgress
                THEN /\ emitted' = configured \o
                          << Signal("arming_signal", "False", "Arming already in progress.") >>
                     /\ io' = c.io
                     /\ ret' = None
                     /\ UNCHANGED <<under_arming, elapsed_time, arming_timeout, arm_timer>>
                ELSE \E o \in armed :
                     /\ Faults(c.io) + Faults(o.io) <= MaxFaults
                     /\ io' = c.io \o o.io
                     /\ ret' = Bool(o.ret)
                     /\ IF o.ret
                        THEN /\ under_arming' = TRUE
                             /\ emitted' = configured \o
                                  << Signal("arming_signal", "True",
                                            "Arming process initiated.") >>
                             /\ elapsed_time' = 0
                             /\ arming_timeout' = ARM_TIMEOUT
                             /\ arm_timer' = TRUE
                        ELSE /\ emitted' = configured \o
                                  << Signal("arming_signal", "False",
                                            "Failed to arm the device. Check preconditions.") >>
                             /\ UNCHANGED <<under_arming, elapsed_time, arming_timeout,
                                            arm_timer>>
    /\ UNCHANGED <<instrument, is_armed, cacheVars, dataVars, outsideVars>>

NextWindow ==
    \/ connect_device
    \/ disconnect_device
    \/ IVMainWindow_arm_device
    \/ stop_arming_monitor

SpecWindow == Init /\ [][NextWindow]_vars

-----------------------------------------------------------------------------
(* The arm action of the window: claims C34 and C35 *)

\* C34: the arm action of the window does not write SOUR:DCON:ARM when the
\* configure step of the same action was rejected.
C34_NoArmAfterRejectedConfigure ==
    (op = "IVMainWindow.arm_device" /\ chk = << False >>) =>
        \A k \in 1..Len(io) : io[k].cmd # "SOUR:DCON:ARM"

\* C35: the arm action of the window, requested while an arming session is in
\* progress, ends with 'Arming already in progress.', reaches no transport call
\* and leaves the stored plan as it was.
C35_ArmActionWhileArming ==
    [][(under_arming /\ op' = "IVMainWindow.arm_device" /\ chk' # <<>>) =>
          /\ emitted'[Len(emitted')]
               = Signal("arming_signal", "False", "Arming already in progress.")
          /\ io' = <<>>
          /\ UNCHANGED planVars]_vars

(***************************************************************************)
(* What a rejected configure call leaves behind: claim C36                 *)
(***************************************************************************)

\* C36: a configure call that is rejected, by a validation rule or by the
\* capacity check, leaves start, stop, step, delta, delay, total_points and
\* estimated_time as they were before the call.
C36_RejectedConfigureKeepsPlan ==
    [][(Configured' /\ ConfigureRejected') => UNCHANGED planVars]_vars

(***************************************************************************)
(* What a failed retrieval leaves behind: claim C37                        *)
(***************************************************************************)

\* C37: a retrieval that does not end with the data-ready signal (the TRAC:DATA?
\* query failed, the response was empty, or no chunk of the payload could be
\* parsed) leaves the stored current and voltage sequences as they were.
C37_FailedRetrievalKeepsData ==
    [][(op' = "retrieve_iv_data" /\ emitted' # << DataReady >>) =>
          UNCHANGED dataVars]_vars

(***************************************************************************)
(* Switching the output off on a cached state: claim C38                   *)
(***************************************************************************)

\* C38: a turn_output_off call made on an open connection while the output of
\* the instrument is on writes OUTP OFF, whatever output_state holds.
C38_OutputOffWhenOn ==
    [][(op' = "turn_output_off" /\ instrument = "open" /\ device_output = ON) =>
          "OUTP OFF" \in Cmds(io')]_vars

-----------------------------------------------------------------------------
(* Keithley2182AConnection: the connection object of the nanovoltmeter *)

\* answers of the 2182A to *IDN?
NvIdnReplies ==
    { <<"K", "2", "1", "8", "2", "A">>, <<"K", "2", "1", "8", "2", "A", "\n">>, VisaIOError }

NvQueries == { "*IDN?", ":FETCh?" }

NvCommands == { "*RST", ":INIT" }

NotConnected == << "Not connected to the device." >>

\* is_connected(): self.instrument is not None
Keithley2182A_is_connected(inst) == inst # "None"

\* connect(): open_resource, whose result is stored at once, then *IDN?;
\* device_connected is set after the answer; a VisaIOError of either call is
\* caught and returned as text
Keithley2182A_connect ==
    /\ op' = "Keithley2182AConnection.connect"
    /\ args' = <<>>
    /\ \/ /\ io' = << Call("open_resource", <<>>, FALSE) >>
          /\ ret' = << "Error connecting to device" >>
          /\ UNCHANGED nvVars
       \/ /\ nv_instrument' = "open"
          /\ \E device_id \in NvIdnReplies :
                /\ io' = << Call("open_resource", <<>>, TRUE),
                            Call("*IDN?", <<>>, device_id # VisaIOError) >>
                /\ IF device_id = VisaIOError
                   THEN /\ ret' = << "Error connecting to device" >>
                        /\ UNCHANGED device_connected
                   ELSE /\ ret' = << "Connected to: " >> \o strip(device_id)
                        /\ device_connected' = TRUE
    /\ chk' = <<>>
    /\ emitted' = <<>>
    /\ UNCHANGED <<instrument, planVars, armVars, cacheVars, dataVars, device_output>>

\* close_connection(): with a handle, close() and both fields reset; close() is
\* not guarded, so when it raises the fields keep their values
Keithley2182A_close_connection ==
    /\ op' = "Keithley2182AConnection.close_connection"
    /\ args' = <<>>
    /\ IF nv_instrument # "None"
       THEN \/ /\ io' = << Call("close", <<>>, TRUE) >>
               /\ ret' = << "Connection closed." >>
               /\ nv_instrument' = "None"
               /\ device_connected' = FALSE
            \/ /\ io' = << Call("close", <<>>, FALSE) >>
               /\ ret' = VisaIOError
               /\ UNCHANGED nvVars
       ELSE /\ io' = <<>>
            /\ ret' = << "No active connection to close." >>
            /\ UNCHANGED nvVars
    /\ chk' = <<>>
    /\ emitted' = <<>>
    /\ UNCHANGED <<instrument, planVars, armVars, cacheVars, dataVars, device_output>>

\* query(command): the stripped answer, "Query error" when the transport raises,
\* and the fixed text without a connection
Keithley2182A_query ==
    /\ op' = "Keithley2182AConnection.query"
    /\ \E command \in NvQueries :
          /\ args' = << command >>
          /\ IF Keithley2182A_is_connected(nv_instrument)
             THEN \E response \in QueryLines \cup { VisaIOError } :
                     /\ io' = << Call(command, <<>>, response # VisaIOError) >>
                     /\ ret' = IF response = VisaIOError THEN << "Query error" >>
                               ELSE strip(response)
             ELSE /\ io' = <<>>
                  /\ ret' = NotConnected
    /\ chk' = <<>>
    /\ emitted' = <<>>
    /\ UNCHANGED <<instrument, planVars, armVars, cacheVars, dataVars, outsideVars>>

\* write(command): what is printed: "Command sent", "Write error" when the
\* transport raises, and the fixed text without a connection
Keithley2182A_write ==
    /\ op' = "Keithley2182AConnection.write"
    /\ \E command \in NvCommands :
          /\ args' = << command >>
          /\ IF Keithley2182A_is_connected(nv_instrument)
             THEN \E ok \in BOOLEAN :
                     /\ io' = << Call(command, <<>>, ok) >>
                     /\ ret' = IF ok THEN << "Command sent" >> ELSE << "Write error" >>
             ELSE /\ io' = <<>>
                  /\ ret' = NotConnected
    /\ chk' = <<>>
    /\ emitted' = <<>>
    /\ UNCHANGED <<instrument, planVars, armVars, cacheVars, dataVars, outsideVars>>

Next2182 ==
    \/ Keithley2182A_connect
    \/ Keithley2182A_close_connection
    \/ Keithley2182A_query
    \/ Keithley2182A_write

Spec2182 == Init /\ [][Next2182]_vars

(***************************************************************************)
(* The two notions of connected of the 2182A object: claim C39             *)
(***************************************************************************)

NvCalled == op \in { "Keithley2182AConnection.query", "Keithley2182AConnection.write" }

\* C39: is_connected() is true exactly when device_connected is true, and a
\* query or write call makes a transport call when is_connected() is true and
\* otherwise makes none and answers 'Not connected to the device.'.
C39_ConnectedFlagsAgree ==
    /\ Keithley2182A_is_connected(nv_instrument) <=> device_connected
    /\ NvCalled =>
          IF Keithley2182A_is_connected(nv_instrument)
          THEN Len(io) = 1 /\ io[1].cmd = args[1]
          ELSE io = <<>> /\ ret = NotConnected

====
